---- MODULE Spec2Model ----
(***************************************************************************)
(* Identity bridge of the Workday MCP server: Entra token validation,      *)
(* worker-id resolution, Workday credential exchange with retry, the       *)
(* per-call WorkerContext and the tool entry points that consume it.       *)
(*                                                                         *)
(* Strings are sequences of symbols (a symbol is a word piece, " " or      *)
(* "@"), so that str.split is modelled by what it does.  Python None and   *)
(* an absent dict key read through dict.get are the value NoneVal.         *)
(***************************************************************************)
EXTENDS Integers, Sequences, FiniteSets, TLC

VARIABLES
    pc,            \* position of the running call
    tool,          \* name of the invoked operation
    args,          \* arguments of the tool call
    header,        \* Authorization header of the request (NoCtx: no HTTP context)
    token,         \* the JWT the header's "<jwt>" stands for: [sigOk, claims]
    options,       \* TokenValidationOptions handed to validate_with_options
    keys,          \* what key discovery / key lookup answers for this call
    graph,         \* <<g1, g2>>: the directory's answers to the two lookups
    payload,       \* validated claims, NoPayload before validation
    worker_id,     \* resolved worker id, NoneVal before resolution
    exchange,      \* answers of the token endpoint, one per attempt made
    access_token,  \* Workday access token, NoneVal before the exchange
    context,       \* WorkerContext, NoContext until it is returned
    inflight,      \* queries of a gather that have not completed yet
    fetched,       \* responses received by the business stage so far
    error,         \* exception that ended the call and the stage that raised it
    completed,     \* stages of the call that have completed successfully
    result,        \* value returned by the call, NoResult before
    log,           \* outbound requests issued so far, in order
    bearer,        \* token string returned by _get_auth_token, NoneVal before
    searched,      \* answer received by the worker search, NotSearched before
    arrived,       \* gathered queries in the order their responses completed
    swallowed,     \* exceptions caught inside the call and not raised again
    message,       \* str() of the exception that ended validation, NoneVal else
    other,         \* outcome of a second, independent validation
    server,        \* FastMCP server: tools registered and handlers dispatched
    calls,         \* two concurrent tool calls, each with its own locals
    waits,         \* sleeps tenacity made between the exchange's attempts
    settings,      \* settings.py: environment, lru caches and loads made
    validator      \* one EntraTokenValidator instance: its _jwks_client

vars == <<pc, tool, args, header, token, options, keys, graph, payload, worker_id,
          exchange, access_token, context, inflight, fetched, error, completed,
          result, log, bearer, searched, arrived, swallowed, message, other,
          server, calls, waits, settings, validator>>

----------------------------------------------------------------------------
(* Bounds *)

MaxItems == 2         \* learning-content items one search returns

MaxRoles == 1         \* entries in a scope / role list claim

MaxScopeLen == 3      \* symbols in a scope claim string / entries in a list

----------------------------------------------------------------------------
(* Python values *)

NoneVal == <<"None">>

Truthy(v) == v # NoneVal /\ v # <<>>

S(x) == <<x>>

RECURSIVE split(_, _)
split(s, sep) ==
    IF \E i \in 1..Len(s) : s[i] = sep
    THEN LET i == CHOOSE k \in 1..Len(s) :
                     s[k] = sep /\ \A j \in 1..(k - 1) : s[j] # sep
         IN  <<SubSeq(s, 1, i - 1)>> \o split(SubSeq(s, i + 1, Len(s)), sep)
    ELSE <<s>>

Elems(seq) == {seq[i] : i \in 1..Len(seq)}

SeqsUpTo(A, n) == UNION {[1..k -> A] : k \in 0..n}

\* An outbound HTTP request as recorded in the log.
Req(stage, req, arg) == [stage |-> stage, req |-> req, arg |-> arg]

NoContext == [none |-> TRUE]

NoResult == [success |-> FALSE, data |-> {}]

NotSearched == [status |-> "none", hasData |-> FALSE, data |-> <<>>]

NoOther == [kind |-> "none", message |-> NoneVal]

\* FastMCP("workday") before any tool is registered
NoServer == [registered |-> <<>>, served |-> <<>>]

\* a process that has read no configuration yet
NoSettings == [none |-> TRUE]

\* EntraTokenValidator(): self._jwks_client = None
NoValidator == [jwks_client |-> NoneVal]

----------------------------------------------------------------------------
(* auth/entra.py *)

\* _extract_scopes: the scp claim wins whenever the key is present; roles is
\* consulted only when scp is absent.  A claim is [kind, val] with kind
\* "absent" | "str" | "list" | "other" (a JSON value that is no container).
NotIterable == {S("<not-iterable>")}

_extract_scopes(claims) ==
    IF claims.scp.kind # "absent"
    THEN IF claims.scp.kind = "str" THEN Elems(split(claims.scp.val, " "))
         ELSE IF claims.scp.kind = "list" THEN Elems(claims.scp.val)
         ELSE NotIterable
    ELSE IF claims.roles.kind # "absent"
    THEN IF claims.roles.kind = "list" THEN Elems(claims.roles.val)
         ELSE {claims.roles.val}
    ELSE {}

\* self.jwks_client.get_signing_key_from_jwt + jwt.decode: the key must be
\* found, the RS256 signature must verify and aud / iss must equal the
\* options' audience / issuer.
DecodeOk(tok, opts, k) ==
    /\ k = "ok"
    /\ tok.sigOk
    /\ Truthy(tok.claims.aud) /\ tok.claims.aud = opts.audience
    /\ tok.claims.iss # NoneVal /\ tok.claims.iss = opts.issuer

\* Requests made while obtaining the signing key on a fresh validator.
KeyRequests(k) ==
    IF k \in {"discovery_failed", "no_jwks_uri"}
    THEN <<Req("validation", "GET openid-configuration", NoneVal)>>
    ELSE <<Req("validation", "GET openid-configuration", NoneVal),
           Req("validation", "GET jwks", NoneVal)>>

NoPayload == [none |-> TRUE]

\* the tenant check applied only to tokens that carry a tid claim
validate_with_options_tid_optional(tok, opts, k) ==
    IF ~DecodeOk(tok, opts, k)
    THEN [kind |-> "TokenValidationError", value |-> NoPayload]
    ELSE IF tok.claims.tid # NoneVal /\ tok.claims.tid \notin opts.allowed_tenants
    THEN [kind |-> "TokenValidationError", value |-> NoPayload]
    ELSE LET scopes == _extract_scopes(tok.claims) IN
         IF opts.scopes # {} /\ scopes = NotIterable
         THEN [kind |-> "TypeError", value |-> NoPayload]
         ELSE IF opts.scopes # {} /\ ~(\E scope \in opts.scopes : scope \in scopes)
         THEN [kind |-> "TokenValidationError", value |-> NoPayload]
         ELSE [kind |-> "ok", value |-> tok.claims]

validate_with_options(tok, opts, k) ==
    IF ~DecodeOk(tok, opts, k)
    THEN [kind |-> "TokenValidationError", value |-> NoPayload]
    ELSE IF tok.claims.tid = NoneVal \/ tok.claims.tid \notin opts.allowed_tenants
    THEN [kind |-> "TokenValidationError", value |-> NoPayload]
    ELSE LET scopes == _extract_scopes(tok.claims) IN
         IF opts.scopes # {} /\ scopes = NotIterable
         THEN [kind |-> "TypeError", value |-> NoPayload]
         ELSE IF opts.scopes # {} /\ ~(\E scope \in opts.scopes : scope \in scopes)
         THEN [kind |-> "TokenValidationError", value |-> NoPayload]
         ELSE [kind |-> "ok", value |-> tok.claims]

\* str(exc) of the exception that ends validate_with_options, NoneVal when it
\* returns: the text of the PyJWT / httpx exception caught around the key
\* lookup and jwt.decode (signature first, then iss, then aud), or the
\* literal of the tenant and scope checks
validation_message(tok, opts, k) ==
    IF k = "discovery_failed" THEN S("Server error for url openid-configuration")
    ELSE IF k = "no_jwks_uri" THEN S("jwks_uri not found in OpenID configuration")
    ELSE IF ~tok.sigOk THEN S("Signature verification failed")
    ELSE IF tok.claims.iss = NoneVal THEN S("Token is missing the iss claim")
    ELSE IF tok.claims.iss # opts.issuer THEN S("Invalid issuer")
    ELSE IF ~Truthy(tok.claims.aud) THEN S("Token is missing the aud claim")
    ELSE IF tok.claims.aud # opts.audience THEN S("Audience doesn't match")
    ELSE IF tok.claims.tid = NoneVal \/ tok.claims.tid \notin opts.allowed_tenants
    THEN S("Token tenant is not allowed")
    ELSE LET scopes == _extract_scopes(tok.claims) IN
         IF opts.scopes # {} /\ scopes = NotIterable
         THEN S("argument of type is not iterable")
         ELSE IF opts.scopes # {} /\ ~(\E scope \in opts.scopes : scope \in scopes)
         THEN S("Token scope missing required permissions")
         ELSE NoneVal

----------------------------------------------------------------------------
(* workday/helpers.py: worker-id resolution *)

\* no fallback to the record's userPrincipalName: a record without an
\* employeeId raises
get_employee_id_from_graph_no_upn(user_identifier, g) ==
    LET tokenReq == Req("resolution", "POST graph token", user_identifier)
        userReq  == Req("resolution", "GET graph user", user_identifier)
    IN  IF g.token # "ok"
        THEN [kind |-> "HTTPError", value |-> NoneVal, requests |-> <<tokenReq>>]
        ELSE IF g.http # "ok"
        THEN [kind |-> "HTTPError", value |-> NoneVal,
              requests |-> <<tokenReq, userReq>>]
        ELSE IF Truthy(g.record.employeeId)
        THEN [kind |-> "ok", value |-> g.record.employeeId,
              requests |-> <<tokenReq, userReq>>]
        ELSE [kind |-> "ValueError", value |-> NoneVal,
              requests |-> <<tokenReq, userReq>>]

\* Answer of the directory to one lookup: g.token is the client-credentials
\* grant ("ok" | "fail"), g.http the user GET ("ok" | "fail"), g.record the
\* returned user [employeeId, userPrincipalName].  The token request is
\* logged with the identifier of the lookup it belongs to; on the wire it
\* carries the client credentials only.
get_employee_id_from_graph(user_identifier, g) ==
    LET tokenReq == Req("resolution", "POST graph token", user_identifier)
        userReq  == Req("resolution", "GET graph user", user_identifier)
    IN  IF g.token # "ok"
        THEN [kind |-> "HTTPError", value |-> NoneVal, requests |-> <<tokenReq>>]
        ELSE IF g.http # "ok"
        THEN [kind |-> "HTTPError", value |-> NoneVal,
              requests |-> <<tokenReq, userReq>>]
        ELSE IF Truthy(g.record.employeeId)
        THEN [kind |-> "ok", value |-> g.record.employeeId,
              requests |-> <<tokenReq, userReq>>]
        ELSE IF Truthy(g.record.userPrincipalName)
        THEN [kind |-> "ok", value |-> split(g.record.userPrincipalName, "@")[1],
              requests |-> <<tokenReq, userReq>>]
        ELSE [kind |-> "ValueError", value |-> NoneVal,
              requests |-> <<tokenReq, userReq>>]

\* a or b or c
Or3(a, b, c) == IF Truthy(a) THEN a ELSE IF Truthy(b) THEN b ELSE c

EmployeeIdKeys == <<"EmployeeId", "employeeId", "employee_id", "extension_EmployeeId">>

\* the for loop over the employee-id claim variants: first truthy one
FirstEmployeeIdClaim(claims) ==
    IF \E i \in 1..Len(EmployeeIdKeys) : Truthy(claims[EmployeeIdKeys[i]])
    THEN LET i == CHOOSE k \in 1..Len(EmployeeIdKeys) :
                     /\ Truthy(claims[EmployeeIdKeys[k]])
                     /\ \A j \in 1..(k - 1) : ~Truthy(claims[EmployeeIdKeys[j]])
         IN  claims[EmployeeIdKeys[i]]
    ELSE NoneVal

\* the employee-id claims of the token consulted before the directory
extract_worker_id_from_token_claims_first(claims, g1, g2) ==
    LET username == Or3(claims.preferred_username, claims.upn, claims.unique_name)
        claimId == FirstEmployeeIdClaim(claims)
        r1 == IF Truthy(username)
              THEN get_employee_id_from_graph(username, g1)
              ELSE [kind |-> "skipped", value |-> NoneVal, requests |-> <<>>]
        r2 == IF Truthy(claims.oid)
              THEN get_employee_id_from_graph(claims.oid, g2)
              ELSE [kind |-> "skipped", value |-> NoneVal, requests |-> <<>>]
    IN  IF Truthy(claimId)
        THEN [kind |-> "ok", value |-> claimId, requests |-> <<>>]
        ELSE IF r1.kind = "ok"
        THEN [kind |-> "ok", value |-> r1.value, requests |-> r1.requests]
        ELSE IF r2.kind = "ok"
        THEN [kind |-> "ok", value |-> r2.value,
              requests |-> r1.requests \o r2.requests]
        ELSE IF Truthy(username)
        THEN [kind |-> "ok", value |-> split(username, "@")[1],
              requests |-> r1.requests \o r2.requests]
        ELSE [kind |-> "ValueError", value |-> NoneVal,
              requests |-> r1.requests \o r2.requests]

\* the first directory lookup called outside try/except: its exception
\* leaves extract_worker_id_from_token
extract_worker_id_from_token_lookup_aborts(claims, g1, g2) ==
    LET username == Or3(claims.preferred_username, claims.upn, claims.unique_name)
        r1 == IF Truthy(username)
              THEN get_employee_id_from_graph(username, g1)
              ELSE [kind |-> "skipped", value |-> NoneVal, requests |-> <<>>]
        r2 == IF Truthy(claims.oid)
              THEN get_employee_id_from_graph(claims.oid, g2)
              ELSE [kind |-> "skipped", value |-> NoneVal, requests |-> <<>>]
        claimId == FirstEmployeeIdClaim(claims)
    IN  IF r1.kind = "ok"
        THEN [kind |-> "ok", value |-> r1.value, requests |-> r1.requests]
        ELSE IF r1.kind # "skipped"
        THEN [kind |-> r1.kind, value |-> NoneVal, requests |-> r1.requests]
        ELSE IF r2.kind = "ok"
        THEN [kind |-> "ok", value |-> r2.value,
              requests |-> r1.requests \o r2.requests]
        ELSE IF Truthy(claimId)
        THEN [kind |-> "ok", value |-> claimId,
              requests |-> r1.requests \o r2.requests]
        ELSE IF Truthy(username)
        THEN [kind |-> "ok", value |-> split(username, "@")[1],
              requests |-> r1.requests \o r2.requests]
        ELSE [kind |-> "ValueError", value |-> NoneVal,
              requests |-> r1.requests \o r2.requests]

\* claims without any usable hint yield an empty worker id instead of raising
extract_worker_id_from_token_empty_id(claims, g1, g2) ==
    LET username == Or3(claims.preferred_username, claims.upn, claims.unique_name)
        r1 == IF Truthy(username)
              THEN get_employee_id_from_graph(username, g1)
              ELSE [kind |-> "skipped", value |-> NoneVal, requests |-> <<>>]
        r2 == IF Truthy(claims.oid)
              THEN get_employee_id_from_graph(claims.oid, g2)
              ELSE [kind |-> "skipped", value |-> NoneVal, requests |-> <<>>]
        claimId == FirstEmployeeIdClaim(claims)
    IN  IF r1.kind = "ok"
        THEN [kind |-> "ok", value |-> r1.value, requests |-> r1.requests]
        ELSE IF r2.kind = "ok"
        THEN [kind |-> "ok", value |-> r2.value,
              requests |-> r1.requests \o r2.requests]
        ELSE IF Truthy(claimId)
        THEN [kind |-> "ok", value |-> claimId,
              requests |-> r1.requests \o r2.requests]
        ELSE IF Truthy(username)
        THEN [kind |-> "ok", value |-> split(username, "@")[1],
              requests |-> r1.requests \o r2.requests]
        ELSE [kind |-> "ok", value |-> <<>>,
              requests |-> r1.requests \o r2.requests]

\* g1, g2: the directory's answers to the username and the object-id lookup
extract_worker_id_from_token(claims, g1, g2) ==
    LET username == Or3(claims.preferred_username, claims.upn, claims.unique_name)
        r1 == IF Truthy(username)
              THEN get_employee_id_from_graph(username, g1)
              ELSE [kind |-> "skipped", value |-> NoneVal, requests |-> <<>>]
        r2 == IF Truthy(claims.oid)
              THEN get_employee_id_from_graph(claims.oid, g2)
              ELSE [kind |-> "skipped", value |-> NoneVal, requests |-> <<>>]
        claimId == FirstEmployeeIdClaim(claims)
    IN  IF r1.kind = "ok"
        THEN [kind |-> "ok", value |-> r1.value, requests |-> r1.requests]
        ELSE IF r2.kind = "ok"
        THEN [kind |-> "ok", value |-> r2.value,
              requests |-> r1.requests \o r2.requests]
        ELSE IF Truthy(claimId)
        THEN [kind |-> "ok", value |-> claimId,
              requests |-> r1.requests \o r2.requests]
        ELSE IF Truthy(username)
        THEN [kind |-> "ok", value |-> split(username, "@")[1],
              requests |-> r1.requests \o r2.requests]
        ELSE [kind |-> "ValueError", value |-> NoneVal,
              requests |-> r1.requests \o r2.requests]

\* the exceptions the two `except Exception` clauses of
\* extract_worker_id_from_token catch and log (graph_lookup_failed)
lookup_exceptions(claims, g1, g2) ==
    LET username == Or3(claims.preferred_username, claims.upn, claims.unique_name)
        r1 == IF Truthy(username)
              THEN get_employee_id_from_graph(username, g1)
              ELSE [kind |-> "skipped", value |-> NoneVal, requests |-> <<>>]
        r2 == IF r1.kind # "ok" /\ Truthy(claims.oid)
              THEN get_employee_id_from_graph(claims.oid, g2)
              ELSE [kind |-> "skipped", value |-> NoneVal, requests |-> <<>>]
    IN  {[stage |-> "resolution", kind |-> r.kind] :
            r \in {x \in {r1, r2} : x.kind \notin {"ok", "skipped"}}}

----------------------------------------------------------------------------
(* Configuration (settings.py) and validate() *)

AAD_APP_CLIENT_ID == S("api-client")

AAD_APP_TENANT_ID == S("tenantA")

Issuer(tenant) == <<"https://login.microsoftonline.com/">> \o tenant \o <<"/v2.0">>

\* the options EntraTokenValidator.validate builds from the settings
validate_options ==
    [audience        |-> AAD_APP_CLIENT_ID,
     issuer          |-> Issuer(AAD_APP_TENANT_ID),
     scopes          |-> {S("workday_read")},
     allowed_tenants |-> {AAD_APP_TENANT_ID}]

validate(tok, k) == validate_with_options(tok, validate_options, k)

----------------------------------------------------------------------------
(* auth/tokens.py: the refresh-token exchange under tenacity's @retry *)

MaxAttempts == 3

\* wait_exponential(min=1, max=8): multiplier and exp_base keep their
\* defaults 1 and 2
WaitMin == 1

WaitMax == 8

Max(a, b) == IF a >= b THEN a ELSE b

Min(a, b) == IF a <= b THEN a ELSE b

\* the exponent taken from the attempt number instead of one less
wait_exponential_late(attempt_number) ==
    Max(Max(0, WaitMin), Min(2 ^ attempt_number, WaitMax))

\* tenacity's wait_exponential after the attempt numbered attempt_number
\* has failed: multiplier * exp_base ** (attempt_number - 1), clamped
wait_exponential(attempt_number) ==
    Max(Max(0, WaitMin), Min(2 ^ (attempt_number - 1), WaitMax))

\* what the token endpoint may answer to one POST
ExchangeAnswers ==
    {"timeout", "connect_error", "503", "400", "401",
     "200", "200_empty_token", "200_no_token"}

\* the access token a 200 answer to the k-th POST carries
TokenOf(k) == S(<<"wd-token-1", "wd-token-2", "wd-token-3", "wd-token-4">>[k])

\* body of get_access_token for one attempt: the OAuthToken's access_token,
\* or NoneVal when the attempt raised
AttemptToken(answer, k) ==
    IF answer = "200" THEN TokenOf(k)
    ELSE IF answer = "200_empty_token" THEN <<>>
    ELSE NoneVal

AttemptRaised(answer) == answer \notin {"200", "200_empty_token"}

\* one attempt too many: the stop condition compared with <= instead of <
ShouldRetry_off_by_one(answer, attemptNumber) ==
    AttemptRaised(answer) /\ attemptNumber <= MaxAttempts

\* tenacity: retry= defaults to retry_if_exception_type(Exception), so every
\* raised attempt is retried until stop_after_attempt(MaxAttempts)
ShouldRetry(answer, attemptNumber) ==
    AttemptRaised(answer) /\ attemptNumber < MaxAttempts

----------------------------------------------------------------------------
(* workday/helpers.py: worker search *)

WorkerRecord(id) == [id |-> id]

\* what the worker collection may answer to the search GET
WorkerSearchAnswers ==
    {[status |-> "error", hasData |-> FALSE, data |-> <<>>],
     [status |-> "ok", hasData |-> FALSE, data |-> <<>>],
     [status |-> "ok", hasData |-> TRUE, data |-> <<>>],
     [status |-> "ok", hasData |-> TRUE, data |-> <<WorkerRecord(S("WID-1"))>>],
     [status |-> "ok", hasData |-> TRUE,
      data |-> <<WorkerRecord(NoneVal), WorkerRecord(S("WID-1"))>>]}

\* the last record of the data array returned instead of the first
search_worker_in_workday_last(answer) ==
    IF answer.status # "ok"
    THEN [kind |-> "HTTPStatusError", value |-> WorkerRecord(NoneVal)]
    ELSE LET records == IF answer.hasData THEN answer.data ELSE <<>>
         IN  IF Len(records) = 0
             THEN [kind |-> "LookupError", value |-> WorkerRecord(NoneVal)]
             ELSE [kind |-> "ok", value |-> records[Len(records)]]

\* answer: the response to the search GET: status "ok" | "error", hasData
\* whether the JSON body has a data key, data its array
search_worker_in_workday(answer) ==
    IF answer.status # "ok"
    THEN [kind |-> "HTTPStatusError", value |-> WorkerRecord(NoneVal)]
    ELSE LET records == IF answer.hasData THEN answer.data ELSE <<>>
         IN  IF Len(records) = 0
             THEN [kind |-> "LookupError", value |-> WorkerRecord(NoneVal)]
             ELSE [kind |-> "ok", value |-> records[1]]

\* WorkerContext(...) as assembled at the end of build_worker_context;
\* workday_id = worker_data.get("id", worker_id)
WorkerContext(p, wid, tok, data) ==
    [payload |-> p, worker_id |-> wid,
     workday_id |-> IF data.id = NoneVal THEN wid ELSE data.id,
     workday_access_token |-> tok, worker_data |-> data]

----------------------------------------------------------------------------
(* workday/tools.py: the registered tools *)

SingleGetTools ==
    {"get_direct_reports", "get_inbox_tasks", "get_learning_assignments",
     "get_pay_slips", "get_time_off_entries"}

GatherTools == {"get_leave_balances", "prepare_request_leave"}

MutationTools == {"book_leave", "change_business_title"}

Tools ==
    {"get_worker", "search_learning_content"} \cup SingleGetTools
        \cup GatherTools \cup MutationTools

\* the queries a gather tool passes to asyncio.gather, in argument order
GatherQueries(t) ==
    IF t = "get_leave_balances"
    THEN <<"balances", "eligibleAbsenceTypes", "leavesOfAbsence", "timeOffDetails">>
    ELSE <<"eligibleAbsenceTypes", "balances", "timeOffDetails">>

\* the Workday resource a single-GET tool reads
SingleGetQuery(t) ==
    CASE t = "get_direct_reports" -> "directReports"
      [] t = "get_inbox_tasks" -> "inboxTasks"
      [] t = "get_learning_assignments" -> "requiredLearning"
      [] t = "get_pay_slips" -> "paySlips"
      [] OTHER -> "timeOffEntries"

MutationQuery(t) ==
    IF t = "book_leave" THEN "POST requestTimeOff" ELSE "POST businessTitleChanges"

\* the body Workday returns for a query
DataOf(q) == <<"data", q>>

NoArgs ==
    [startDate |-> NoneVal, endDate |-> NoneVal, timeOffTypeId |-> NoneVal,
     proposedBusinessTitle |-> NoneVal, token |-> NoneVal]

ItemId(i) == <<"content-1", "content-2", "content-3", "content-4">>[i]

\* ---- tool_book_leave: the reason of an error response ----

\* errors value of a body: the key absent, JSON null, or a list of elements;
\* an element is an object with an optional error member, or a string
ErrorsAbsent == [kind |-> "absent", val |-> <<>>]

ErrorsNull == [kind |-> "null", val |-> <<>>]

ErrorsList(elements) == [kind |-> "list", val |-> elements]

ErrorObject(e) == [kind |-> "dict", error |-> e]

ErrorString == [kind |-> "str", error |-> NoneVal]

\* the parsed body of a response: isDict is isinstance(parsed_body, dict)
Body(isDict, errors, e, m) ==
    [isDict |-> isDict, errors |-> errors, error |-> e, message |-> m]

\* f"Workday API error {response.status_code}"
StatusMessage(status) == <<"Workday API error ", status>>

\* the `if response.is_error:` block of tool_book_leave: the exception it
\* ends with and its message
book_leave_error(status, body) ==
    IF ~body.isDict
    THEN [kind |-> "ValueError", message |-> StatusMessage(status)]
    ELSE IF body.errors.kind = "null"
    THEN [kind |-> "TypeError", message |-> S("NoneType is not subscriptable")]
    ELSE IF body.errors.kind = "list" /\ Len(body.errors.val) = 0
    THEN [kind |-> "IndexError", message |-> S("list index out of range")]
    ELSE IF body.errors.kind = "list" /\ body.errors.val[1].kind # "dict"
    THEN [kind |-> "AttributeError", message |-> S("str object has no attribute get")]
    ELSE LET first == IF body.errors.kind = "absent" THEN NoneVal
                      ELSE body.errors.val[1].error
             m1 == IF Truthy(first) THEN first ELSE body.error
             m2 == IF Truthy(m1) THEN m1 ELSE body.message
         IN  [kind |-> "ValueError",
              message |-> IF Truthy(m2) THEN m2 ELSE StatusMessage(status)]

----------------------------------------------------------------------------
(* One tool call *)

\* ---- workday/tools.py: _get_auth_token ----

\* the request has no HTTP context (ctx is None)
NoCtx == <<"no ctx">>

\* str.lower() on one symbol of a header
lower(sym) ==
    CASE sym \in {"Bearer", "BEARER", "bearer"} -> "bearer"
      [] sym \in {"Basic", "basic"} -> "basic"
      [] OTHER -> sym

\* auth_header.lower().startswith("bearer ")
startswith_bearer(h) == Len(h) >= 2 /\ lower(h[1]) = "bearer" /\ h[2] = " "

\* auth_header.split(" ", 1)[1]: what follows the first blank
RECURSIVE after_first_blank(_)
after_first_blank(h) ==
    IF h = <<>> THEN <<>>
    ELSE IF Head(h) = " " THEN Tail(h)
    ELSE after_first_blank(Tail(h))

RECURSIVE lstrip(_)
lstrip(s) == IF s # <<>> /\ Head(s) = " " THEN lstrip(Tail(s)) ELSE s

RECURSIVE rstrip(_)
rstrip(s) ==
    IF s # <<>> /\ s[Len(s)] = " " THEN rstrip(SubSeq(s, 1, Len(s) - 1)) ELSE s

strip(s) == rstrip(lstrip(s))

\* the header is optional when the caller passes a token argument
_get_auth_token_or_argument(h, a) ==
    IF h = NoCtx THEN [kind |-> "ValueError", value |-> NoneVal]
    ELSE IF ~Truthy(h) \/ ~startswith_bearer(h)
    THEN IF Truthy(a.token) THEN [kind |-> "ok", value |-> a.token]
         ELSE [kind |-> "ValueError", value |-> NoneVal]
    ELSE LET t == strip(after_first_blank(h)) IN
         IF ~Truthy(t) THEN [kind |-> "ValueError", value |-> NoneVal]
         ELSE [kind |-> "ok", value |-> t]

\* _get_auth_token(ctx) on the request's Authorization header; the tool's
\* arguments are never consulted
_get_auth_token(h, a) ==
    IF h = NoCtx THEN [kind |-> "ValueError", value |-> NoneVal]
    ELSE IF ~Truthy(h) \/ ~startswith_bearer(h)
    THEN [kind |-> "ValueError", value |-> NoneVal]
    ELSE LET t == strip(after_first_blank(h)) IN
         IF ~Truthy(t) THEN [kind |-> "ValueError", value |-> NoneVal]
         ELSE [kind |-> "ok", value |-> t]

env == <<tool, args, header, token, options, keys, graph>>

\* state outside the one call followed by the pipeline
process == <<server, calls, settings, validator>>

aux == <<bearer, searched, arrived, swallowed, message, other, process, waits>>

StageOf(p) ==
    CASE p = "gate" -> "gate"
      [] p = "entry" -> "entry"
      [] p = "validate" -> "validation"
      [] p = "resolve" -> "resolution"
      [] p = "credential" -> "credential"
      [] p = "search" -> "worker_search"
      [] OTHER -> "business"

NoError == [stage |-> "none", kind |-> "none"]

Fail(e) == pc' = "failed" /\ error' = [stage |-> StageOf(pc), kind |-> e]

\* a stage is completed when the call leaves it without an exception
Progress ==
    completed' = IF pc' # "failed" /\ (pc' = "done" \/ StageOf(pc') # StageOf(pc))
                 THEN completed \cup {StageOf(pc)}
                 ELSE completed

\* claims of tokens
Absent == [kind |-> "absent", val |-> <<>>]

Str(v) == [kind |-> "str", val |-> v]

List(v) == [kind |-> "list", val |-> v]

Other == [kind |-> "other", val |-> <<>>]

\* a delegated token of the configured tenant for this API
BaseClaims ==
    [aud |-> AAD_APP_CLIENT_ID, iss |-> Issuer(AAD_APP_TENANT_ID),
     tid |-> AAD_APP_TENANT_ID, scp |-> Str(<<"workday_read">>), roles |-> Absent,
     preferred_username |-> NoneVal, upn |-> NoneVal, unique_name |-> NoneVal,
     oid |-> NoneVal, EmployeeId |-> NoneVal, employeeId |-> NoneVal,
     employee_id |-> NoneVal, extension_EmployeeId |-> NoneVal]

Alice == <<"alice", "@", "contoso.com">>

\* the JWT a token string decodes to: only "<jwt>" and "<arg-jwt>" are
\* well-formed, every other string fails PyJWT's parsing like a bad signature
ArgToken ==
    [sigOk |-> TRUE,
     claims |-> [BaseClaims EXCEPT !.preferred_username = <<"mallory", "@", "contoso.com">>]]

Jwt(b) ==
    IF b = S("<jwt>") THEN token
    ELSE IF b = S("<arg-jwt>") THEN ArgToken
    ELSE [sigOk |-> FALSE, claims |-> BaseClaims]

\* token = _get_auth_token(ctx), the first statement of every tool
tool_get_auth_token ==
    /\ pc = "gate"
    /\ LET r == _get_auth_token(header, args) IN
         IF r.kind = "ok"
         THEN bearer' = r.value /\ pc' = "entry" /\ error' = error
         ELSE bearer' = bearer /\ Fail(r.kind)
    /\ Progress
    /\ UNCHANGED <<env, process, waits, arrived, searched, swallowed, message, other, payload,
                   worker_id,
                   exchange, access_token, context, inflight, fetched, result, log>>

\* the statements of a tool before its first await that follows
\* _get_auth_token: change_business_title checks its argument here
\* an entry that leaves proposedBusinessTitle unchecked
tool_entry_unchecked ==
    /\ pc = "entry"
    /\ pc' = "validate" /\ error' = error
    /\ Progress
    /\ UNCHANGED <<env, aux, payload, worker_id, exchange, access_token,
                   context,
                   inflight, fetched, result, log>>

tool_entry ==
    /\ pc = "entry"
    /\ IF tool = "change_business_title" /\ ~Truthy(args.proposedBusinessTitle)
       THEN Fail("ValueError")
       ELSE pc' = "validate" /\ error' = error
    /\ Progress
    /\ UNCHANGED <<env, aux, payload, worker_id, exchange, access_token,
                   context,
                   inflight, fetched, result, log>>

\* validation and the credential exchange started together instead of one
\* after the other
build_worker_context_validate_prefetch ==
    /\ pc = "validate"
    /\ tool # "search_learning_content"
    /\ LET r == validate(Jwt(bearer), keys) IN
         /\ log' = log \o KeyRequests(keys)
                       \o <<Req("credential", "POST token", NoneVal)>>
         /\ message' = validation_message(Jwt(bearer), validate_options, keys)
         /\ IF r.kind = "ok"
            THEN payload' = r.value /\ pc' = "resolve" /\ error' = error
            ELSE payload' = payload /\ Fail(r.kind)
    /\ Progress
    /\ UNCHANGED <<env, process, waits, arrived, bearer, searched, swallowed, other, worker_id,
                   exchange, access_token, context,
                   inflight, fetched, result>>

\* build_worker_context: payload = await validator.validate(token)
build_worker_context_validate ==
    /\ pc = "validate"
    /\ tool # "search_learning_content"
    /\ LET r == validate(Jwt(bearer), keys) IN
         /\ log' = log \o KeyRequests(keys)
         /\ message' = validation_message(Jwt(bearer), validate_options, keys)
         /\ IF r.kind = "ok"
            THEN payload' = r.value /\ pc' = "resolve" /\ error' = error
            ELSE payload' = payload /\ Fail(r.kind)
    /\ Progress
    /\ UNCHANGED <<env, process, waits, arrived, bearer, searched, swallowed, other, worker_id,
                   exchange, access_token, context,
                   inflight, fetched, result>>

\* tool_search_learning_content: await validator.validate(token), the
\* claims are dropped and the next statement is the credential exchange
search_learning_content_validate ==
    /\ pc = "validate"
    /\ tool = "search_learning_content"
    /\ LET r == validate(Jwt(bearer), keys) IN
         /\ log' = log \o KeyRequests(keys)
         /\ message' = validation_message(Jwt(bearer), validate_options, keys)
         /\ IF r.kind = "ok"
            THEN pc' = "credential" /\ error' = error
            ELSE Fail(r.kind)
    /\ Progress
    /\ UNCHANGED <<env, process, waits, arrived, bearer, searched, swallowed, other, payload,
                   worker_id, exchange, access_token, context,
                   inflight, fetched, result>>

\* build_worker_context: worker_id = await extract_worker_id_from_token(...)
build_worker_context_resolve ==
    /\ pc = "resolve"
    /\ LET r == extract_worker_id_from_token(payload, graph[1], graph[2]) IN
         /\ log' = log \o r.requests
         /\ swallowed' = swallowed \cup lookup_exceptions(payload, graph[1], graph[2])
         /\ IF r.kind = "ok"
            THEN worker_id' = r.value /\ pc' = "credential" /\ error' = error
            ELSE worker_id' = worker_id /\ Fail(r.kind)
    /\ Progress
    /\ UNCHANGED <<env, process, waits, arrived, bearer, searched, message, other, payload,
                   exchange,
                   access_token, context, inflight, fetched, result>>

\* one attempt of WorkdayTokenProvider.get_access_token and tenacity's
\* decision after it
get_access_token ==
    /\ pc = "credential"
    /\ \E answer \in ExchangeAnswers :
         LET k == Len(exchange) + 1 IN
         /\ exchange' = Append(exchange, answer)
         /\ log' = Append(log, Req("credential", "POST token", NoneVal))
         /\ IF ~AttemptRaised(answer)
            THEN /\ access_token' = AttemptToken(answer, k)
                 /\ pc' = IF tool = "search_learning_content"
                          THEN "business" ELSE "search"
                 /\ error' = error
            ELSE /\ access_token' = access_token
                 /\ IF ShouldRetry(answer, k)
                    THEN pc' = pc /\ error' = error
                    ELSE Fail("RetryError")
         /\ waits' = IF ShouldRetry(answer, k)
                     THEN Append(waits, wait_exponential(k))
                     ELSE waits
    /\ Progress
    /\ UNCHANGED <<env, bearer, searched, arrived, swallowed, message, other,
                   process, payload, worker_id, context, inflight, fetched,
                   result>>

\* build_worker_context: worker_data = await search_worker_in_workday(...)
\* and the construction of the WorkerContext
build_worker_context_search ==
    /\ pc = "search"
    /\ \E answer \in WorkerSearchAnswers :
         LET r == search_worker_in_workday(answer) IN
         /\ log' = Append(log, Req("worker_search", "GET workers", worker_id))
         /\ searched' = answer
         /\ IF r.kind = "ok"
            THEN /\ context' = WorkerContext(payload, worker_id, access_token, r.value)
                 /\ pc' = "business"
                 /\ error' = error
            ELSE context' = context /\ Fail(r.kind)
    /\ Progress
    /\ UNCHANGED <<env, process, waits, arrived, bearer, swallowed, message, other, payload,
                   worker_id, exchange, access_token,
                   inflight, fetched, result>>

BusinessReq(req) == Req("business", req, context.workday_id)

Success(data) == [success |-> TRUE, data |-> data]

\* a GET whose error status is not checked: the error body is returned as
\* the data
_fetch_json_unchecked(q, status) ==
    IF status = "timeout"
    THEN [kind |-> "TimeoutException", value |-> NoneVal]
    ELSE [kind |-> "ok",
          value |-> IF status = "ok" THEN DataOf(q) ELSE <<"error", q>>]

\* _fetch_json: one GET; raise_for_status() raises on an error status and a
\* timeout raises from client.get, otherwise the JSON body is returned
_fetch_json(q, status) ==
    IF status = "ok" THEN [kind |-> "ok", value |-> DataOf(q)]
    ELSE [kind |-> IF status = "error" THEN "HTTPStatusError" ELSE "TimeoutException",
          value |-> NoneVal]

\* tool_get_worker: return _transform_worker(worker_context.worker_data)
tool_get_worker ==
    /\ pc = "business"
    /\ tool = "get_worker"
    /\ result' = Success({<<"workdayId", context.worker_data.id>>})
    /\ pc' = "done"
    /\ Progress
    /\ UNCHANGED <<env, aux, payload, worker_id, exchange, access_token,
                   context,
                   inflight, fetched, error, log>>

\* the tools that await one _fetch_json and return its flattened data
tool_single_get ==
    /\ pc = "business"
    /\ tool \in SingleGetTools
    /\ LET q == SingleGetQuery(tool) IN
       \E status \in {"ok", "error", "timeout"} :
         /\ log' = Append(log, BusinessReq(q))
         /\ LET r == _fetch_json(q, status) IN
            IF r.kind = "ok"
            THEN /\ fetched' = {<<q, r.value>>}
                 /\ result' = Success(fetched')
                 /\ pc' = "done"
                 /\ error' = error
            ELSE /\ fetched' = fetched
                 /\ result' = result
                 /\ Fail(r.kind)
    /\ Progress
    /\ UNCHANGED <<env, aux, payload, worker_id, exchange, access_token,
                   context,
                   inflight>>

\* asyncio.gather(...): every query is started before any response arrives
gather_issue ==
    /\ pc = "business"
    /\ tool \in GatherTools
    /\ LET qs == GatherQueries(tool) IN
         /\ log' = log \o [i \in 1..Len(qs) |-> BusinessReq(qs[i])]
         /\ inflight' = Elems(qs)
    /\ pc' = "gather"
    /\ Progress
    /\ UNCHANGED <<env, aux, payload, worker_id, exchange, access_token,
                   context,
                   fetched, error, result>>

\* the response of query q among the responses received
ResponseOf(q, responses) == CHOOSE d \in {r[2] : r \in {x \in responses : x[1] = q}} : TRUE

\* the keys of the returned dict that the unpacked gather results are
\* assigned to, in unpacking order
ResultFields(t) ==
    IF t = "get_leave_balances"
    THEN <<"leaveBalances", "eligibleAbsenceTypes", "leavesOfAbsence", "bookedTimeOff">>
    ELSE <<"eligibleAbsenceTypes", "leaveBalances", "bookedTimeOff">>

\* asyncio.gather returns its results in the order of its arguments
gather(qs, responses) == [i \in 1..Len(qs) |-> ResponseOf(qs[i], responses)]

\* the dict a gather tool returns: field i holds the i-th gathered result
GatherResult(t, results) ==
    Success({<<ResultFields(t)[i], results[i]>> : i \in 1..Len(results)})

\* the results handed back in the order the responses completed
gather_complete_as_completed ==
    /\ pc = "gather"
    /\ \E q \in inflight, status \in {"ok", "error"} :
         /\ inflight' = inflight \ {q}
         /\ arrived' = Append(arrived, q)
         /\ LET r == _fetch_json(q, status) IN
            IF r.kind = "ok"
            THEN /\ fetched' = fetched \cup {<<q, r.value>>}
                 /\ IF inflight' = {}
                    THEN /\ result' = GatherResult(tool, gather(arrived', fetched'))
                         /\ pc' = "done"
                    ELSE result' = result /\ pc' = pc
                 /\ error' = error
            ELSE /\ fetched' = fetched
                 /\ result' = result
                 /\ Fail(r.kind)
    /\ Progress
    /\ UNCHANGED <<env, process, waits, bearer, searched, swallowed, message, other, payload,
                   worker_id, exchange, access_token, context, log>>

\* one of the gathered queries completes; the first failure is raised to
\* the awaiting tool, the last success makes gather return and the tool
\* build its result
gather_complete ==
    /\ pc = "gather"
    /\ \E q \in inflight, status \in {"ok", "error"} :
         /\ inflight' = inflight \ {q}
         /\ arrived' = Append(arrived, q)
         /\ LET r == _fetch_json(q, status) IN
            IF r.kind = "ok"
            THEN /\ fetched' = fetched \cup {<<q, r.value>>}
                 /\ IF inflight' = {}
                    THEN /\ result' = GatherResult(tool, gather(GatherQueries(tool), fetched'))
                         /\ pc' = "done"
                    ELSE result' = result /\ pc' = pc
                 /\ error' = error
            ELSE /\ fetched' = fetched
                 /\ result' = result
                 /\ Fail(r.kind)
    /\ Progress
    /\ UNCHANGED <<env, process, waits, bearer, searched, swallowed, message, other, payload,
                   worker_id, exchange, access_token, context, log>>

\* answers of Workday to the leave-booking POST: accepted, no answer in
\* time, or an error status with a body
BookLeaveAnswers ==
    {[status |-> st, body |-> Body(TRUE, ErrorsAbsent, NoneVal, NoneVal)] :
        st \in {"ok", "timeout"}}
    \cup {[status |-> "400", body |-> b] :
            b \in {Body(TRUE, ErrorsList(<<ErrorObject(S("Absence type invalid"))>>),
                        NoneVal, NoneVal),
                   Body(TRUE, ErrorsList(<<>>), NoneVal, NoneVal)}}

\* the POST sent a second time when the first one timed out
tool_book_leave_resend ==
    /\ pc = "business"
    /\ tool = "book_leave"
    /\ IF ~Truthy(args.startDate) \/ ~Truthy(args.endDate)
          \/ ~Truthy(args.timeOffTypeId)
       THEN Fail("ValueError") /\ UNCHANGED <<log, result, message>>
       ELSE \E answer \in BookLeaveAnswers :
              /\ log' = IF answer.status = "timeout"
                        THEN log \o <<BusinessReq(MutationQuery(tool)),
                                      BusinessReq(MutationQuery(tool))>>
                        ELSE Append(log, BusinessReq(MutationQuery(tool)))
              /\ IF answer.status = "ok"
                 THEN /\ result' = Success({<<"requestTimeOff",
                                              DataOf("requestTimeOff")>>})
                      /\ pc' = "done"
                      /\ UNCHANGED <<error, message>>
                 ELSE IF answer.status = "timeout"
                 THEN /\ Fail("TimeoutException")
                      /\ UNCHANGED <<result, message>>
                 ELSE LET r == book_leave_error(answer.status, answer.body) IN
                      /\ Fail(r.kind)
                      /\ message' = r.message
                      /\ result' = result
    /\ Progress
    /\ UNCHANGED <<env, process, waits, bearer, searched, arrived, swallowed, other, payload,
                   worker_id, exchange, access_token, context, inflight, fetched>>

\* tool_book_leave after the context build: argument check, then the POST
tool_book_leave ==
    /\ pc = "business"
    /\ tool = "book_leave"
    /\ IF ~Truthy(args.startDate) \/ ~Truthy(args.endDate)
          \/ ~Truthy(args.timeOffTypeId)
       THEN Fail("ValueError") /\ UNCHANGED <<log, result, message>>
       ELSE \E answer \in BookLeaveAnswers :
              /\ log' = Append(log, BusinessReq(MutationQuery(tool)))
              /\ IF answer.status = "ok"
                 THEN /\ result' = Success({<<"requestTimeOff",
                                              DataOf("requestTimeOff")>>})
                      /\ pc' = "done"
                      /\ UNCHANGED <<error, message>>
                 ELSE IF answer.status = "timeout"
                 THEN /\ Fail("TimeoutException")
                      /\ UNCHANGED <<result, message>>
                 ELSE LET r == book_leave_error(answer.status, answer.body) IN
                      /\ Fail(r.kind)
                      /\ message' = r.message
                      /\ result' = result
    /\ Progress
    /\ UNCHANGED <<env, process, waits, bearer, searched, arrived, swallowed, other, payload,
                   worker_id, exchange, access_token, context, inflight, fetched>>

\* tool_change_business_title after the context build: the POST
tool_change_business_title ==
    /\ pc = "business"
    /\ tool = "change_business_title"
    /\ \E status \in {"ok", "error", "timeout"} :
         /\ log' = Append(log, BusinessReq(MutationQuery(tool)))
         /\ IF status = "ok"
            THEN /\ result' = Success({<<"changeDetails", DataOf("businessTitleChanges")>>})
                 /\ pc' = "done"
                 /\ error' = error
            ELSE /\ result' = result
                 /\ Fail(IF status = "error" THEN "HTTPStatusError"
                         ELSE "TimeoutException")
    /\ Progress
    /\ UNCHANGED <<env, aux, payload, worker_id, exchange, access_token,
                   context,
                   inflight, fetched>>

\* tool_search_learning_content: await _search_learning_content(...)
search_learning_content_search ==
    /\ pc = "business"
    /\ tool = "search_learning_content"
    /\ log' = Append(log, Req("business", "content", access_token))
    /\ \E status \in {"ok", "error"}, n \in 0..MaxItems :
         IF status = "ok"
         THEN /\ inflight' = {ItemId(i) : i \in 1..n}
              /\ IF n = 0
                 THEN result' = Success({}) /\ pc' = "done"
                 ELSE result' = result /\ pc' = "lessons"
              /\ error' = error
         ELSE /\ n = 0
              /\ inflight' = inflight
              /\ result' = result
              /\ Fail("HTTPStatusError")
    /\ Progress
    /\ UNCHANGED <<env, aux, payload, worker_id, exchange, access_token,
                   context,
                   fetched>>

\* one round of the for loop: await _get_lessons(...) inside try/except;
\* a failed fetch leaves the item with no lessons
search_learning_content_lessons ==
    /\ pc = "lessons"
    /\ LET item == CHOOSE i \in inflight :
                      \A j \in inflight : \E a, b \in 1..(MaxItems + 1) :
                          ItemId(a) = i /\ ItemId(b) = j /\ a <= b
       IN \E status \in {"ok", "error"} :
            /\ log' = Append(log, Req("business", "lessons", S(item)))
            /\ inflight' = inflight \ {item}
            /\ fetched' = fetched \cup
                  {<<item, IF status = "ok" THEN DataOf(item) ELSE <<>> >>}
            /\ swallowed' = IF status = "ok" THEN swallowed
                            ELSE swallowed \cup
                                 {[stage |-> "business", kind |-> "HTTPStatusError"]}
            /\ IF inflight' = {}
               THEN result' = Success(fetched') /\ pc' = "done"
               ELSE result' = result /\ pc' = pc
    /\ Progress
    /\ UNCHANGED <<env, process, waits, arrived, bearer, searched, message, other, payload,
                   worker_id,
                   exchange, access_token, context, error>>

----------------------------------------------------------------------------
(* Inputs *)

GraphFail == [token |-> "fail", http |-> "fail",
              record |-> [employeeId |-> NoneVal, userPrincipalName |-> NoneVal]]

GraphNotFound == [GraphFail EXCEPT !.token = "ok"]

GraphUser(employeeId, upn) ==
    [token |-> "ok", http |-> "ok",
     record |-> [employeeId |-> employeeId, userPrincipalName |-> upn]]

NoGraph == <<GraphFail, GraphFail>>

FullLeave ==
    [NoArgs EXCEPT !.startDate = S("2024-12-01"), !.endDate = S("2024-12-03"),
                   !.timeOffTypeId = S("PTO")]

ToolArgs(t) ==
    IF t = "book_leave"
    THEN {FullLeave, [FullLeave EXCEPT !.startDate = NoneVal],
          [FullLeave EXCEPT !.endDate = NoneVal],
          [FullLeave EXCEPT !.timeOffTypeId = <<>>]}
    ELSE IF t = "change_business_title"
    THEN {NoArgs, [NoArgs EXCEPT !.proposedBusinessTitle = S("Staff Engineer")]}
    ELSE IF t = "get_worker"
    THEN {NoArgs, [NoArgs EXCEPT !.token = S("<arg-jwt>")]}
    ELSE {NoArgs}

\* Authorization headers of the requests
CallHeaders ==
    {NoCtx, NoneVal, <<>>, <<"<jwt>">>, <<"Basic", " ", "<jwt>">>, <<"Bearer">>,
     <<"Bearer", " ">>, <<"BEARER", " ", " ">>, <<"Bearer", " ", "<jwt>">>,
     <<"bearer", " ", " ", "<jwt>", " ">>, <<"Bearer", " ", "<jwt>", " ", "x">>}

TokenOfClaims(c) == [sigOk |-> TRUE, claims |-> c]

\* bearer tokens presented to the tools
CallTokens ==
    {[sigOk |-> FALSE, claims |-> [BaseClaims EXCEPT !.preferred_username = Alice]],
     TokenOfClaims([BaseClaims EXCEPT !.tid = S("tenantB"), !.preferred_username = Alice]),
     TokenOfClaims([BaseClaims EXCEPT !.scp = Absent, !.preferred_username = Alice]),
     TokenOfClaims(BaseClaims),
     TokenOfClaims([BaseClaims EXCEPT !.employee_id = S("E7")]),
     TokenOfClaims([BaseClaims EXCEPT !.preferred_username = Alice]),
     TokenOfClaims([BaseClaims EXCEPT !.preferred_username = Alice,
                                      !.oid = S("oid-1"), !.employee_id = S("E7")]),
     TokenOfClaims([BaseClaims EXCEPT !.preferred_username = <<"@", "contoso.com">>])}

CallGraphs ==
    {NoGraph,
     <<GraphUser(S("E123"), Alice), GraphFail>>,
     <<GraphUser(NoneVal, <<"al", "@", "contoso.com">>), GraphFail>>,
     <<GraphNotFound, GraphUser(S("E9"), Alice)>>}

CallKeys == {"ok", "discovery_failed"}

Rest ==
    /\ payload = NoPayload
    /\ worker_id = NoneVal
    /\ exchange = <<>>
    /\ access_token = NoneVal
    /\ context = NoContext
    /\ inflight = {}
    /\ fetched = {}
    /\ error = NoError
    /\ completed = {}
    /\ result = NoResult
    /\ log = <<>>
    /\ bearer = NoneVal
    /\ searched = NotSearched
    /\ arrived = <<>>
    /\ swallowed = {}
    /\ message = NoneVal
    /\ other = NoOther
    /\ server = NoServer
    /\ calls = <<>>
    /\ waits = <<>>
    /\ settings = NoSettings
    /\ validator = NoValidator

Init ==
    /\ pc = "gate"
    /\ tool \in Tools
    /\ args \in ToolArgs(tool)
    /\ header \in CallHeaders
    /\ token \in CallTokens
    /\ options = validate_options
    /\ keys \in CallKeys
    /\ graph \in CallGraphs
    /\ Rest

Next ==
    \/ tool_get_auth_token
    \/ tool_entry
    \/ build_worker_context_validate
    \/ search_learning_content_validate
    \/ build_worker_context_resolve
    \/ get_access_token
    \/ build_worker_context_search
    \/ tool_get_worker
    \/ tool_single_get
    \/ gather_issue
    \/ gather_complete
    \/ tool_book_leave
    \/ tool_change_business_title
    \/ search_learning_content_search
    \/ search_learning_content_lessons

Spec == Init /\ [][Next]_vars

----------------------------------------------------------------------------
(* validate_with_options on its own, over tokens and options *)

TenantB == S("tenantB")

ScopeStrings == SeqsUpTo({"workday_read", "other", " "}, MaxScopeLen)

ScopeLists == SeqsUpTo({S("workday_read"), S("other")}, MaxRoles)

ScopeClaims ==
    {Absent, Other} \cup {Str(v) : v \in ScopeStrings} \cup {List(v) : v \in ScopeLists}

RoleClaims == {Absent, Str(S("workday_read"))} \cup {List(v) : v \in ScopeLists}

ValidateTokens ==
    {[sigOk  |-> sg,
      claims |-> [BaseClaims EXCEPT !.aud = a, !.iss = i, !.tid = t,
                                    !.scp = sc, !.roles = ro]] :
        sg \in BOOLEAN, a \in {AAD_APP_CLIENT_ID, S("other-api")},
        i \in {Issuer(AAD_APP_TENANT_ID), Issuer(TenantB)},
        t \in {NoneVal, AAD_APP_TENANT_ID, TenantB},
        sc \in ScopeClaims, ro \in RoleClaims}

ValidateOptions ==
    [audience : {AAD_APP_CLIENT_ID}, issuer : {Issuer(AAD_APP_TENANT_ID)},
     scopes : SUBSET {S("workday_read"), S("admin")},
     allowed_tenants : SUBSET {AAD_APP_TENANT_ID, TenantB}]

ValidateKeys == {"ok", "no_jwks_uri"}

InitValidate ==
    /\ pc = "call"
    /\ tool = "validate_with_options"
    /\ args = NoArgs
    /\ header = NoneVal
    /\ token \in ValidateTokens
    /\ options \in ValidateOptions
    /\ keys \in ValidateKeys
    /\ graph = NoGraph
    /\ Rest

\* await validator.validate_with_options(token, options)
call_validate_with_options ==
    /\ pc = "call"
    /\ tool = "validate_with_options"
    /\ LET r == validate_with_options(token, options, keys) IN
         /\ log' = log \o KeyRequests(keys)
         /\ message' = validation_message(token, options, keys)
         /\ IF r.kind = "ok"
            THEN payload' = r.value /\ error' = error
            ELSE payload' = payload /\ error' = [stage |-> "validation", kind |-> r.kind]
    /\ pc' = "returned"
    /\ UNCHANGED <<env, process, waits, arrived, bearer, searched, swallowed, other, worker_id,
                   exchange, access_token, context, inflight,
                   fetched, completed, result>>

SpecValidate == InitValidate /\ [][call_validate_with_options]_vars

----------------------------------------------------------------------------
(* validate on two tokens, one after the other, as a caller probing the
   validator sees it *)

CompareTokens ==
    {[sigOk  |-> sg,
      claims |-> [BaseClaims EXCEPT !.aud = a, !.iss = i, !.tid = t, !.scp = sc]] :
        sg \in BOOLEAN,
        a \in {AAD_APP_CLIENT_ID, S("other-api")},
        i \in {Issuer(AAD_APP_TENANT_ID), Issuer(S("tenantB"))},
        t \in {AAD_APP_TENANT_ID, S("tenantB"), NoneVal},
        sc \in {Str(<<"workday_read">>), Str(<<"other">>), Absent}}

InitCompare ==
    /\ pc = "call"
    /\ tool = "validate"
    /\ args = NoArgs
    /\ header = NoneVal
    /\ token \in CompareTokens
    /\ options = validate_options
    /\ keys \in CallKeys
    /\ graph = NoGraph
    /\ Rest

\* await validator.validate(token) on the first token
validate_first_token ==
    /\ pc = "call"
    /\ tool = "validate"
    /\ LET r == validate(token, keys) IN
         /\ log' = log \o KeyRequests(keys)
         /\ message' = validation_message(token, validate_options, keys)
         /\ IF r.kind = "ok"
            THEN payload' = r.value /\ error' = error
            ELSE payload' = payload /\ error' = [stage |-> "validation", kind |-> r.kind]
    /\ pc' = "second"
    /\ UNCHANGED <<env, process, waits, arrived, bearer, searched, swallowed, other, worker_id,
                   exchange,
                   access_token, context, inflight, fetched, completed, result>>

\* await validator.validate(token) on a second token of the caller's choice
validate_second_token ==
    /\ pc = "second"
    /\ \E tok \in CompareTokens :
         LET r == validate(tok, keys) IN
         /\ log' = log \o KeyRequests(keys)
         /\ other' = [kind |-> r.kind,
                      message |-> validation_message(tok, validate_options, keys)]
    /\ pc' = "returned"
    /\ UNCHANGED <<env, process, waits, arrived, bearer, searched, swallowed, message, payload,
                   error,
                   worker_id, exchange, access_token, context, inflight, fetched,
                   completed, result>>

NextCompare == validate_first_token \/ validate_second_token

SpecCompare == InitCompare /\ [][NextCompare]_vars

----------------------------------------------------------------------------
(* extract_worker_id_from_token on its own, over claims and directory answers *)

ResolveClaims ==
    {[BaseClaims EXCEPT !.preferred_username = pu, !.upn = up, !.unique_name = un,
                        !.oid = o, !.EmployeeId = e1, !.employeeId = e2,
                        !.employee_id = e3, !.extension_EmployeeId = e4] :
        pu \in {NoneVal, <<>>, Alice, <<"@", "contoso.com">>},
        up \in {NoneVal, <<"bob", "@", "contoso.com">>},
        un \in {NoneVal, <<"carol">>},
        o \in {NoneVal, <<>>, S("oid-1")},
        e1 \in {NoneVal, S("E1")}, e2 \in {NoneVal, <<>>, S("E2")},
        e3 \in {NoneVal, S("E3")}, e4 \in {NoneVal, S("E4")}}

ResolveGraphAnswers ==
    {GraphFail, GraphNotFound} \cup
    {GraphUser(e, u) : e \in {NoneVal, <<>>, S("E123")},
                       u \in {NoneVal, <<"al", "@", "contoso.com">>,
                                        <<"@", "contoso.com">>}}

InitResolve ==
    /\ pc = "call"
    /\ tool = "extract_worker_id_from_token"
    /\ args = NoArgs
    /\ header = NoneVal
    /\ token \in {[sigOk |-> TRUE, claims |-> c] : c \in ResolveClaims}
    /\ options = validate_options
    /\ keys = "ok"
    /\ graph \in ResolveGraphAnswers \X ResolveGraphAnswers
    /\ Rest

\* await extract_worker_id_from_token(token, payload) on the token's claims
call_extract_worker_id_from_token ==
    /\ pc = "call"
    /\ tool = "extract_worker_id_from_token"
    /\ LET r == extract_worker_id_from_token(token.claims, graph[1], graph[2]) IN
         /\ log' = log \o r.requests
         /\ swallowed' = swallowed \cup
                            lookup_exceptions(token.claims, graph[1], graph[2])
         /\ IF r.kind = "ok"
            THEN worker_id' = r.value /\ error' = error
            ELSE worker_id' = worker_id
                 /\ error' = [stage |-> "resolution", kind |-> r.kind]
    /\ pc' = "returned"
    /\ UNCHANGED <<env, process, waits, arrived, bearer, searched, message, other, payload,
                   exchange,
                   access_token, context, inflight, fetched, completed, result>>

SpecResolve == InitResolve /\ [][call_extract_worker_id_from_token]_vars

----------------------------------------------------------------------------
(* workday/tools.py: _create_days_array on its own, over dates, quantities
   and units *)

\* consecutive calendar days; a datetime's day is its position in Calendar
Calendar == <<"2024-11-29", "2024-11-30", "2024-12-01", "2024-12-02", "2024-12-03">>

\* times of day an ISO string may carry, in hours
Clock == [t \in {"T08:00:00", "T17:00:00"} |-> IF t = "T08:00:00" THEN 8 ELSE 17]

\* datetime.fromisoformat(s): a date alone is midnight of that day
fromisoformat(s) ==
    [day  |-> CHOOSE d \in 1..Len(Calendar) : Calendar[d] = s[1],
     hour |-> IF Len(s) = 1 THEN 0 ELSE Clock[s[2]]]

\* current <= end on two naive datetimes
datetime_le(a, b) == a.day < b.day \/ (a.day = b.day /\ a.hour <= b.hour)

\* the while loop of _generate_date_range from datetime `current` on:
\* current.date().isoformat() for every current <= end, current advancing by
\* timedelta(days=1)
RECURSIVE date_range_from(_, _)
date_range_from(current, end) ==
    IF datetime_le(current, end)
    THEN <<Calendar[current.day]>> \o
         date_range_from([current EXCEPT !.day = @ + 1], end)
    ELSE <<>>

_generate_date_range(start_date, end_date) ==
    date_range_from(fromisoformat(start_date), fromisoformat(end_date))

\* str.lower() on a unit
unit_lower(unit) ==
    [i \in 1..Len(unit) |->
        CASE unit[i] \in {"Days", "days", "DAYS"} -> "days"
          [] unit[i] \in {"Hours", "hours"} -> "hours"
          [] OTHER -> unit[i]]

day_entry(day, daily_quantity, reason, time_off_type_id) ==
    [date |-> <<day, "T08:00:00.000Z">>,
     start |-> <<day, "T08:00:00.000Z">>,
     end |-> <<day, "T17:00:00.000Z">>,
     dailyQuantity |-> daily_quantity,
     comment |-> reason,
     timeOffType |-> time_off_type_id]

_create_days_array(start_date, end_date, quantity, unit, reason, time_off_type_id) ==
    LET range == _generate_date_range(start_date, end_date)
        daily_quantity == IF unit_lower(unit) = S("days") THEN S("8") ELSE quantity
    IN  [i \in 1..Len(range) |->
            day_entry(range[i], daily_quantity, reason, time_off_type_id)]

\* ISO strings of the days of Calendar that leave a day to advance to, alone
\* or with a time of day
IsoDates ==
    {<<Calendar[d]>> : d \in 1..Len(Calendar)} \cup
    {<<Calendar[d], t>> : d \in 1..Len(Calendar), t \in DOMAIN Clock}

InitDays ==
    /\ pc = "call"
    /\ tool = "_create_days_array"
    /\ args \in [startDate : IsoDates, endDate : IsoDates,
                 quantity : {S("4"), S("8")},
                 unit : {S("Days"), S("days"), S("Hours")},
                 reason : {S("Vacation")}, timeOffTypeId : {S("PTO")}]
    /\ header = NoneVal
    /\ token = TokenOfClaims(BaseClaims)
    /\ options = validate_options
    /\ keys = "ok"
    /\ graph = NoGraph
    /\ Rest

\* days = _create_days_array(startDate, endDate, quantity, unit, reason,
\* timeOffTypeId)
call_create_days_array ==
    /\ pc = "call"
    /\ tool = "_create_days_array"
    /\ result' = [success |-> TRUE,
                  data |-> _create_days_array(args.startDate, args.endDate,
                               args.quantity, args.unit, args.reason,
                               args.timeOffTypeId)]
    /\ pc' = "returned"
    /\ UNCHANGED <<env, aux, payload, worker_id, exchange, access_token, context,
                   inflight, fetched, error, completed, log>>

SpecDays == InitDays /\ [][call_create_days_array]_vars

----------------------------------------------------------------------------
(* workday/tools.py: tool_book_leave's handling of an error response, over
   status codes and bodies *)

ErrorTexts == {NoneVal, <<>>, S("Absence type invalid"), S("Quota exceeded")}

ErrorBodies ==
    {Body(d, errs, e, m) :
        d \in BOOLEAN,
        errs \in {ErrorsAbsent, ErrorsNull, ErrorsList(<<>>),
                  ErrorsList(<<ErrorString>>)}
                 \cup {ErrorsList(<<ErrorObject(x)>>) : x \in ErrorTexts}
                 \cup {ErrorsList(<<ErrorObject(S("Absence type invalid")),
                                    ErrorObject(S("Quota exceeded"))>>)},
        e \in {NoneVal, <<>>, S("Bad request")},
        m \in {NoneVal, <<>>, S("Request failed")}}

ErrorStatuses == {"400", "404", "500"}

InitBookError ==
    /\ pc = "call"
    /\ tool = "book_leave"
    /\ args = FullLeave
    /\ header = NoneVal
    /\ token = TokenOfClaims(BaseClaims)
    /\ options = validate_options
    /\ keys = "ok"
    /\ graph = NoGraph
    /\ Rest

\* the leave-booking POST is answered with an error status
book_leave_error_response ==
    /\ pc = "call"
    /\ tool = "book_leave"
    /\ \E status \in ErrorStatuses, body \in ErrorBodies :
         LET r == book_leave_error(status, body) IN
         /\ fetched' = {<<status, body>>}
         /\ error' = [stage |-> "business", kind |-> r.kind]
         /\ message' = r.message
    /\ pc' = "returned"
    /\ UNCHANGED <<env, process, waits, bearer, searched, arrived, swallowed, other, payload,
                   worker_id, exchange, access_token, context, inflight,
                   completed, result, log>>

SpecBookError == InitBookError /\ [][book_leave_error_response]_vars

----------------------------------------------------------------------------
(* workday/server.py: build_workday_server and the dispatch of tool calls *)

MaxCalls == 2

ToolSpec(name) == [name |-> name, func |-> <<"tool_", name>>]

\* a registry that lost its last entry
WORKDAY_TOOL_SPECS_short ==
    <<ToolSpec("get_worker"), ToolSpec("get_leave_balances"),
      ToolSpec("get_direct_reports"), ToolSpec("get_inbox_tasks"),
      ToolSpec("get_learning_assignments"), ToolSpec("get_pay_slips"),
      ToolSpec("get_time_off_entries"), ToolSpec("prepare_request_leave"),
      ToolSpec("book_leave"), ToolSpec("change_business_title")>>

\* tools.py: the name and func of every entry, in the order of the list
WORKDAY_TOOL_SPECS ==
    <<ToolSpec("get_worker"), ToolSpec("get_leave_balances"),
      ToolSpec("get_direct_reports"), ToolSpec("get_inbox_tasks"),
      ToolSpec("get_learning_assignments"), ToolSpec("get_pay_slips"),
      ToolSpec("get_time_off_entries"), ToolSpec("prepare_request_leave"),
      ToolSpec("book_leave"), ToolSpec("change_business_title"),
      ToolSpec("search_learning_content")>>

\* FastMCP's tool table after the registrations made so far: a name that is
\* registered again keeps its first function
ToolTable(registered) ==
    {registered[i] : i \in {j \in 1..Len(registered) :
                               \A k \in 1..(j - 1) : registered[k].name # registered[j].name}}

\* names a client may call: the registered ones and one that is not
CallNames == {WORKDAY_TOOL_SPECS[i].name : i \in 1..Len(WORKDAY_TOOL_SPECS)}
                 \cup {"delete_worker"}

InitServer ==
    /\ pc = "register"
    /\ tool = "build_workday_server"
    /\ args = NoArgs
    /\ header = NoneVal
    /\ token = TokenOfClaims(BaseClaims)
    /\ options = validate_options
    /\ keys = "ok"
    /\ graph = NoGraph
    /\ Rest

\* one round of `for spec in WORKDAY_TOOL_SPECS:` server.tool(name=...)(func);
\* the loop's end returns the server
register_tool ==
    /\ pc = "register"
    /\ LET i == Len(server.registered) + 1 IN
         /\ i <= Len(WORKDAY_TOOL_SPECS)
         /\ server' = [server EXCEPT !.registered = Append(@, WORKDAY_TOOL_SPECS[i])]
         /\ pc' = IF i = Len(WORKDAY_TOOL_SPECS) THEN "serving" ELSE pc
    /\ UNCHANGED <<env, bearer, searched, arrived, swallowed, message, other,
                   calls, waits, settings, validator, payload, worker_id,
                   exchange, access_token, context, inflight, fetched, error,
                   completed, result, log>>

\* the built server receives a tool call and runs the function registered
\* under its name, or answers that the tool is unknown
dispatch_tool_call ==
    /\ pc = "serving"
    /\ Len(server.served) < MaxCalls
    /\ \E name \in CallNames :
         LET found == {t \in ToolTable(server.registered) : t.name = name} IN
         server' = [server EXCEPT !.served =
                       Append(@, [name |-> name,
                                  func |-> IF found = {} THEN S("Unknown tool")
                                           ELSE (CHOOSE t \in found : TRUE).func])]
    /\ UNCHANGED <<env, bearer, searched, arrived, swallowed, message, other,
                   calls, waits, settings, validator, payload, worker_id,
                   exchange, access_token, context, inflight, fetched, error,
                   completed, result, log, pc>>

NextServer == register_tool \/ dispatch_tool_call

SpecServer == InitServer /\ [][NextServer]_vars

----------------------------------------------------------------------------
(* Two tool calls in flight at once: each is a coroutine with its own
   locals; the event loop interleaves them at their awaits *)

Bob == <<"bob", "@", "contoso.com">>

ConcurrentTokens ==
    {TokenOfClaims([BaseClaims EXCEPT !.preferred_username = Alice]),
     TokenOfClaims([BaseClaims EXCEPT !.preferred_username = Bob]),
     TokenOfClaims([BaseClaims EXCEPT !.employee_id = S("E7")]),
     [sigOk |-> FALSE, claims |-> [BaseClaims EXCEPT !.preferred_username = Bob]]}

\* the directory's record of a user: its employeeId is derived from the name
DirectoryAnswer(id) == GraphUser(<<"emp-", id[1]>>, id)

\* the worker collection's answer to a search for a worker id
WorkerAnswer(wid) ==
    [status |-> "ok", hasData |-> TRUE, data |-> <<WorkerRecord(<<"WID-">> \o wid)>>]

\* locals of a call that has extracted its bearer token
NewCall(tok) ==
    [pc |-> "validate", token |-> tok, payload |-> NoPayload, worker_id |-> NoneVal,
     attempts |-> 0, access_token |-> NoneVal, context |-> NoContext,
     requests |-> <<>>, error |-> "none"]

\* grants the token endpoint has made so far, to either call
Granted == Cardinality({i \in DOMAIN calls : calls[i].access_token # NoneVal})

\* a request with the worker id and the Workday token it carries
CallReq(stage, req, wid, tok) == [stage |-> stage, req |-> req, arg |-> wid, token |-> tok]

InitCalls ==
    /\ pc = "serving"
    /\ tool = "get_worker"
    /\ args = NoArgs
    /\ header = NoneVal
    /\ token = TokenOfClaims(BaseClaims)
    /\ options = validate_options
    /\ keys = "ok"
    /\ graph = NoGraph
    /\ payload = NoPayload
    /\ worker_id = NoneVal
    /\ exchange = <<>>
    /\ access_token = NoneVal
    /\ context = NoContext
    /\ inflight = {}
    /\ fetched = {}
    /\ error = NoError
    /\ completed = {}
    /\ result = NoResult
    /\ log = <<>>
    /\ bearer = NoneVal
    /\ searched = NotSearched
    /\ arrived = <<>>
    /\ swallowed = {}
    /\ message = NoneVal
    /\ other = NoOther
    /\ server = NoServer
    /\ waits = <<>>
    /\ settings = NoSettings
    /\ validator = NoValidator
    /\ \E t1, t2 \in ConcurrentTokens :
         t1 # t2 /\ calls = <<NewCall(t1), NewCall(t2)>>

OnlyCalls ==
    UNCHANGED <<env, bearer, searched, arrived, swallowed, message, other, server,
                waits, settings, validator, payload, worker_id, exchange,
                access_token, context, inflight, fetched, error, completed,
                result, log, pc>>

\* build_worker_context of call i: validator = EntraTokenValidator();
\* payload = await validator.validate(token)
call_validate(i) ==
    /\ calls[i].pc = "validate"
    /\ LET r == validate(calls[i].token, keys)
           reqs == [k \in 1..Len(KeyRequests(keys)) |->
                       CallReq("validation", KeyRequests(keys)[k].req, NoneVal, NoneVal)]
       IN calls' = [calls EXCEPT ![i] =
              IF r.kind = "ok"
              THEN [@ EXCEPT !.payload = r.value, !.pc = "resolve",
                             !.requests = @ \o reqs]
              ELSE [@ EXCEPT !.error = r.kind, !.pc = "failed",
                             !.requests = @ \o reqs]]
    /\ OnlyCalls

\* worker_id = await extract_worker_id_from_token(token, payload)
call_resolve(i) ==
    /\ calls[i].pc = "resolve"
    /\ LET c == calls[i].payload
           u == Or3(c.preferred_username, c.upn, c.unique_name)
           r == extract_worker_id_from_token(c, DirectoryAnswer(u), GraphFail)
           reqs == [k \in 1..Len(r.requests) |->
                       CallReq("resolution", r.requests[k].req, r.requests[k].arg,
                               NoneVal)]
       IN calls' = [calls EXCEPT ![i] =
              IF r.kind = "ok"
              THEN [@ EXCEPT !.worker_id = r.value, !.pc = "credential",
                             !.requests = @ \o reqs]
              ELSE [@ EXCEPT !.error = r.kind, !.pc = "failed",
                             !.requests = @ \o reqs]]
    /\ OnlyCalls

\* the exchange skipped when another call already holds a Workday token
call_get_access_token_shared(i) ==
    /\ calls[i].pc = "credential"
    /\ LET held == {j \in DOMAIN calls : calls[j].access_token # NoneVal} IN
       IF held # {}
       THEN calls' = [calls EXCEPT ![i] =
                [@ EXCEPT !.access_token = calls[CHOOSE j \in held : TRUE].access_token,
                          !.pc = "search"]]
       ELSE \E answer \in {"200", "503"} :
         LET k == calls[i].attempts + 1
             req == CallReq("credential", "POST token", NoneVal, NoneVal)
         IN calls' = [calls EXCEPT ![i] =
              IF ~AttemptRaised(answer)
              THEN [@ EXCEPT !.attempts = k, !.pc = "search",
                             !.access_token = TokenOf(Granted + 1),
                             !.requests = Append(@, req)]
              ELSE IF ShouldRetry(answer, k)
              THEN [@ EXCEPT !.attempts = k, !.requests = Append(@, req)]
              ELSE [@ EXCEPT !.attempts = k, !.requests = Append(@, req),
                             !.error = "RetryError", !.pc = "failed"]]
    /\ OnlyCalls

\* access_token = await get_workday_access_token(): a new
\* WorkdayTokenProvider and one attempt of its get_access_token
call_get_access_token(i) ==
    /\ calls[i].pc = "credential"
    /\ \E answer \in {"200", "503"} :
         LET k == calls[i].attempts + 1
             req == CallReq("credential", "POST token", NoneVal, NoneVal)
         IN calls' = [calls EXCEPT ![i] =
              IF ~AttemptRaised(answer)
              THEN [@ EXCEPT !.attempts = k, !.pc = "search",
                             !.access_token = TokenOf(Granted + 1),
                             !.requests = Append(@, req)]
              ELSE IF ShouldRetry(answer, k)
              THEN [@ EXCEPT !.attempts = k, !.requests = Append(@, req)]
              ELSE [@ EXCEPT !.attempts = k, !.requests = Append(@, req),
                             !.error = "RetryError", !.pc = "failed"]]
    /\ OnlyCalls

\* worker_data = await search_worker_in_workday(access_token, worker_id) and
\* the WorkerContext built from the call's locals
call_search(i) ==
    /\ calls[i].pc = "search"
    /\ LET me == calls[i]
           r == search_worker_in_workday(WorkerAnswer(me.worker_id))
           req == CallReq("worker_search", "GET workers", me.worker_id, me.access_token)
       IN calls' = [calls EXCEPT ![i] =
              [@ EXCEPT !.context = WorkerContext(me.payload, me.worker_id,
                                                  me.access_token, r.value),
                        !.pc = "business", !.requests = Append(@, req)]]
    /\ OnlyCalls

\* a Workday read of the tool with the context's id and token
call_business(i) ==
    /\ calls[i].pc = "business"
    /\ LET ctx == calls[i].context
           req == CallReq("business", "directReports", ctx.workday_id,
                          ctx.workday_access_token)
       IN calls' = [calls EXCEPT ![i] =
              [@ EXCEPT !.pc = "done", !.requests = Append(@, req)]]
    /\ OnlyCalls

NextCalls ==
    \E i \in 1..2 :
        \/ call_validate(i)
        \/ call_resolve(i)
        \/ call_get_access_token(i)
        \/ call_search(i)
        \/ call_business(i)

SpecCalls == InitCalls /\ [][NextCalls]_vars

----------------------------------------------------------------------------
(* settings.py: the three lru-cached loaders and reset_settings_cache.
   Every caller in the package loads without an env_file argument, so each
   cache is used with one key. *)

MaxSteps == 4

SettingKinds == {"shared_auth", "workday_oauth", "graph"}

\* what the environment holds for a kind: a complete configuration, or
\* S("missing") when a required variable is not set
EnvValues == {S("missing"), S("config-A"), S("config-B")}

\* settings: env what the environment holds, cache the lru caches (NoneVal:
\* empty), reads the reads of the environment and returned the outcomes of
\* the loads since the last reset, last the operation just made
SettingsState(env0) ==
    [env |-> env0,
     cache |-> [k \in SettingKinds |-> NoneVal],
     reads |-> [k \in SettingKinds |-> 0],
     returned |-> [k \in SettingKinds |-> {}],
     last |-> [op |-> "start", kind |-> "none", hit |-> FALSE],
     steps |-> 0]

InitSettings ==
    /\ pc = "serving"
    /\ tool = "settings"
    /\ args = NoArgs
    /\ header = NoneVal
    /\ token = TokenOfClaims(BaseClaims)
    /\ options = validate_options
    /\ keys = "ok"
    /\ graph = NoGraph
    /\ payload = NoPayload
    /\ worker_id = NoneVal
    /\ exchange = <<>>
    /\ access_token = NoneVal
    /\ context = NoContext
    /\ inflight = {}
    /\ fetched = {}
    /\ error = NoError
    /\ completed = {}
    /\ result = NoResult
    /\ log = <<>>
    /\ bearer = NoneVal
    /\ searched = NotSearched
    /\ arrived = <<>>
    /\ swallowed = {}
    /\ message = NoneVal
    /\ other = NoOther
    /\ server = NoServer
    /\ calls = <<>>
    /\ waits = <<>>
    /\ validator = NoValidator
    /\ \E e \in [SettingKinds -> EnvValues] : settings = SettingsState(e)

OnlySettings ==
    UNCHANGED <<env, bearer, searched, arrived, swallowed, message, other, server,
                calls, waits, validator, payload, worker_id, exchange,
                access_token, context, inflight, fetched, error, completed,
                result, log, pc>>

\* a load that reads the environment on every call
load_settings_uncached(kind) ==
    /\ settings.steps < MaxSteps
    /\ LET value == settings.env[kind] IN
         settings' = [settings EXCEPT
             !.cache[kind] = NoneVal,
             !.reads[kind] = @ + 1,
             !.returned[kind] = @ \cup {IF value = S("missing") THEN S("ValidationError")
                                        ELSE value},
             !.last = [op |-> "load", kind |-> kind, hit |-> FALSE],
             !.steps = @ + 1]
    /\ OnlySettings

\* load_shared_auth_settings() / load_workday_oauth_settings() /
\* load_graph_settings() as a tool call makes it: a cached value is
\* returned, otherwise the settings class reads the environment; its
\* ValidationError propagates and lru_cache stores nothing
load_settings(kind) ==
    /\ settings.steps < MaxSteps
    /\ LET hit == settings.cache[kind] # NoneVal
           value == IF hit THEN settings.cache[kind] ELSE settings.env[kind]
       IN settings' = [settings EXCEPT
             !.cache[kind] = IF value = S("missing") THEN NoneVal ELSE value,
             !.reads[kind] = IF hit THEN @ ELSE @ + 1,
             !.returned[kind] = @ \cup {IF value = S("missing") THEN S("ValidationError")
                                        ELSE value},
             !.last = [op |-> "load", kind |-> kind, hit |-> hit],
             !.steps = @ + 1]
    /\ OnlySettings

\* reset_settings_cache(): cache_clear() on the three loaders
reset_settings_cache ==
    /\ settings.steps < MaxSteps
    /\ settings' = [settings EXCEPT
           !.cache = [k \in SettingKinds |-> NoneVal],
           !.reads = [k \in SettingKinds |-> 0],
           !.returned = [k \in SettingKinds |-> {}],
           !.last = [op |-> "reset", kind |-> "none", hit |-> FALSE],
           !.steps = @ + 1]
    /\ OnlySettings

\* the environment of the process changes (a variable is exported, the env
\* file is edited): no code of the package is involved
change_environment ==
    /\ settings.steps < MaxSteps
    /\ \E kind \in SettingKinds, value \in EnvValues :
         /\ value # settings.env[kind]
         /\ settings' = [settings EXCEPT
                !.env[kind] = value,
                !.last = [op |-> "environment", kind |-> kind, hit |-> FALSE],
                !.steps = @ + 1]
    /\ OnlySettings

NextSettings ==
    \/ \E kind \in SettingKinds : load_settings(kind)
    \/ reset_settings_cache
    \/ change_environment

SpecSettings == InitSettings /\ [][NextSettings]_vars

----------------------------------------------------------------------------
(* auth/entra.py: validate called again and again on one
   EntraTokenValidator instance *)

MaxValidations == 3

\* answers of the OpenID metadata endpoint: a document with a jwks_uri, an
\* error status (raise_for_status), a document without jwks_uri
DiscoveryAnswers == {"ok", "discovery_failed", "no_jwks_uri"}

\* answers of the key-set endpoint to PyJWKClient
JwksAnswers == {"ok", "jwks_failed"}

InstanceTokens ==
    {TokenOfClaims(BaseClaims),
     [sigOk |-> FALSE, claims |-> BaseClaims],
     TokenOfClaims([BaseClaims EXCEPT !.tid = S("tenantB")])}

\* PyJWKClient keeps the key set it has fetched
HasJwkSet(history) ==
    \E i \in 1..Len(history) : history[i].keys = "ok"

InitValidator ==
    /\ pc = "serving"
    /\ tool = "validate"
    /\ args = NoArgs
    /\ header = NoneVal
    /\ token = TokenOfClaims(BaseClaims)
    /\ options = validate_options
    /\ keys = "ok"
    /\ graph = NoGraph
    /\ Rest

OnlyValidator ==
    UNCHANGED <<env, bearer, searched, arrived, swallowed, other, server,
                waits, settings, payload, worker_id, exchange, access_token,
                context, inflight, fetched, error, completed, result, pc>>

\* a jwks_client property that keeps nothing on the instance
validator_validate_rediscover ==
    /\ Len(calls) < MaxValidations
    /\ \E tok \in InstanceTokens, answer \in DiscoveryAnswers, jwks \in JwksAnswers :
         LET discovery == answer
             fetch == discovery = "ok" /\ ~HasJwkSet(calls)
             k == IF discovery # "ok" THEN discovery
                  ELSE IF fetch THEN jwks ELSE "ok"
             r == validate_with_options(tok, options, k)
         IN /\ validator' = validator
            /\ log' = log
                 \o <<Req("validation", "GET openid-configuration", NoneVal)>>
                 \o (IF fetch THEN <<Req("validation", "GET jwks", NoneVal)>> ELSE <<>>)
            /\ calls' = Append(calls, [token |-> tok, discovery |-> discovery,
                                       keys |-> IF fetch THEN jwks ELSE "none",
                                       kind |-> r.kind])
            /\ message' = validation_message(tok, options, k)
    /\ OnlyValidator

\* await validator.validate(token): the jwks_client property discovers the
\* key-set address when self._jwks_client is None and keeps the client only
\* when the discovery returned one; an exception of the discovery or of the
\* key lookup is re-raised as TokenValidationError
validator_validate ==
    /\ Len(calls) < MaxValidations
    /\ \E tok \in InstanceTokens, answer \in DiscoveryAnswers, jwks \in JwksAnswers :
         LET discovery == IF validator.jwks_client = NoneVal THEN answer ELSE "reused"
             client == discovery \in {"ok", "reused"}
             fetch == client /\ ~HasJwkSet(calls)
             k == IF ~client THEN discovery
                  ELSE IF fetch THEN jwks ELSE "ok"
             r == validate_with_options(tok, options, k)
         IN /\ validator' = [validator EXCEPT
                  !.jwks_client = IF discovery = "ok" THEN S("jwks_uri") ELSE @]
            /\ log' = log
                 \o (IF discovery # "reused"
                     THEN <<Req("validation", "GET openid-configuration", NoneVal)>>
                     ELSE <<>>)
                 \o (IF fetch THEN <<Req("validation", "GET jwks", NoneVal)>> ELSE <<>>)
            /\ calls' = Append(calls, [token |-> tok, discovery |-> discovery,
                                       keys |-> IF fetch THEN jwks ELSE "none",
                                       kind |-> r.kind])
            /\ message' = validation_message(tok, options, k)
    /\ OnlyValidator

SpecValidator == InitValidator /\ [][validator_validate]_vars

----------------------------------------------------------------------------
(* Properties of token validation (SpecValidate) *)

\* the words of a space-delimited string: its maximal space-free runs
Words(str) ==
    {SubSeq(str, i, j) : i \in 1..Len(str), j \in 1..Len(str)} \cap
    {w \in SeqsUpTo({str[i] : i \in 1..Len(str)}, Len(str)) :
        /\ Len(w) > 0
        /\ \A n \in 1..Len(w) : w[n] # " "
        /\ \E i \in 1..Len(str) :
             /\ i + Len(w) - 1 <= Len(str)
             /\ SubSeq(str, i, i + Len(w) - 1) = w
             /\ (i = 1 \/ str[i - 1] = " ")
             /\ (i + Len(w) - 1 = Len(str) \/ str[i + Len(w)] = " ")}

ClaimScopes(c) ==
    IF c.kind = "str" THEN Words(c.val)
    ELSE IF c.kind = "list" THEN Elems(c.val)
    ELSE {}

\* the scopes a token carries in its scope claim or its role-list claim
ClaimedScopes(claims) == ClaimScopes(claims.scp) \cup ClaimScopes(claims.roles)

SignatureGate == keys = "ok" /\ token.sigOk

AudienceGate == token.claims.aud = options.audience

IssuerGate == token.claims.iss = options.issuer

TenantGate ==
    token.claims.tid # NoneVal /\ token.claims.tid \in options.allowed_tenants

ScopeGate == \E scope \in options.scopes : scope \in ClaimedScopes(token.claims)

Returned == pc = "returned"

\* C2: a token failing any one of the five gates (signature, audience,
\* issuer, tenant, scope) is rejected with TokenValidationError, whatever the
\* options are, an empty list of required scopes included.
C2_FiveGates ==
    (Returned /\ ~(SignatureGate /\ AudienceGate /\ IssuerGate /\ TenantGate
                   /\ ScopeGate))
        => error.kind = "TokenValidationError"

\* C3: with signature, audience and issuer valid, a token whose tid claim is
\* absent or outside allowed_tenants fails with TokenValidationError,
\* whatever scopes it carries.
C3_TenantGate ==
    (Returned /\ SignatureGate /\ AudienceGate /\ IssuerGate /\ ~TenantGate)
        => error.kind = "TokenValidationError"

C3_Witness ==
    /\ Returned /\ SignatureGate /\ AudienceGate /\ IssuerGate
    /\ token.claims.tid = TenantB
    /\ TenantB \notin options.allowed_tenants
    /\ ScopeGate
    /\ error.kind = "TokenValidationError"

\* C4: with the other four gates passed and some scope required, validation
\* fails exactly when no required scope appears in the scp claim or in the
\* roles claim.
C4_ScopeGate ==
    (Returned /\ SignatureGate /\ AudienceGate /\ IssuerGate /\ TenantGate
        /\ options.scopes # {})
        => ((error # NoError) <=> ~ScopeGate)

----------------------------------------------------------------------------
(* Properties of one tool call (Spec) *)

Stages == <<"gate", "entry", "validation", "resolution", "credential", "worker_search",
            "business">>

Rank(stage) == CHOOSE i \in 1..Len(Stages) : Stages[i] = stage

ContextTools == Tools \ {"search_learning_content"}

RequestsOf(stage) == {i \in 1..Len(log) : log[i].stage = stage}

\* C1: when one of the four steps of build_worker_context fails, no request
\* of a later step has been issued and no WorkerContext exists; after a
\* failed validation the log holds no directory lookup, no credential POST
\* and no worker search.
C1_FailFast ==
    (/\ tool \in ContextTools
     /\ pc = "failed"
     /\ error.stage \in {"validation", "resolution", "credential", "worker_search"})
        => /\ context = NoContext
           /\ \A i \in 1..Len(log) : Rank(log[i].stage) <= Rank(error.stage)

C1_Witness ==
    /\ tool = "get_worker"
    /\ pc = "failed"
    /\ error = [stage |-> "validation", kind |-> "TokenValidationError"]
    /\ keys = "ok"
    /\ ~token.sigOk
    /\ Len(log) = 2

\* C5: a request of a stage is issued only when every earlier stage
\* (validation, identity resolution, credential exchange, worker search /
\* downstream queries) of the same call has completed successfully.
C5_StageOrder ==
    [][\A i \in (Len(log) + 1)..Len(log') :
          \A n \in 3..(Rank(log'[i].stage) - 1) : Stages[n] \in completed]_vars

Transient == {"timeout", "connect_error", "503"}

\* C6: one POST per attempt and at most MaxAttempts attempts; a success on
\* attempt k after k-1 transient failures returns that attempt's token; three
\* transient failures end the call with the exchange's error.
C6_RetryTransient ==
    /\ Len(exchange) <= MaxAttempts
    /\ Cardinality(RequestsOf("credential")) = Len(exchange)
    /\ \A k \in 1..Len(exchange) :
         (/\ exchange[k] = "200"
          /\ \A j \in 1..(k - 1) : exchange[j] \in Transient)
            => /\ Len(exchange) = k
               /\ access_token = TokenOf(k)
               /\ error.stage # "credential"
    /\ (/\ Len(exchange) = MaxAttempts
        /\ \A j \in 1..MaxAttempts : exchange[j] \in Transient)
            => /\ pc = "failed"
               /\ error = [stage |-> "credential", kind |-> "RetryError"]
               /\ access_token = NoneVal

C6_Witness ==
    /\ exchange = <<"503", "503", "200">>
    /\ access_token = TokenOf(3)
    /\ pc = "search"

\* C7: after a 400 or 401 answer to the first POST the exchange is not
\* retried: exactly one POST is ever issued and the call has failed in the
\* credential stage.
C7_NoRetryOn4xx ==
    (Len(exchange) >= 1 /\ exchange[1] \in {"400", "401"})
        => /\ Cardinality(RequestsOf("credential")) = 1
           /\ pc # "credential" => (pc = "failed" /\ error.stage = "credential")

----------------------------------------------------------------------------
(* Properties of worker-id resolution (SpecResolve) *)

\* the text of str before its first "@"
LocalPart(str) ==
    LET n == CHOOSE m \in 0..Len(str) :
                 /\ \A i \in 1..m : str[i] # "@"
                 /\ (m = Len(str) \/ str[m + 1] = "@")
    IN  SubSeq(str, 1, n)

\* the username claim: the first non-empty of the three variants
UsernameOf(c) ==
    IF Truthy(c.preferred_username) THEN c.preferred_username
    ELSE IF Truthy(c.upn) THEN c.upn
    ELSE IF Truthy(c.unique_name) THEN c.unique_name
    ELSE NoneVal

\* the first non-empty employee-id claim in the fixed order
EmployeeIdOf(c) ==
    IF Truthy(c.EmployeeId) THEN c.EmployeeId
    ELSE IF Truthy(c.employeeId) THEN c.employeeId
    ELSE IF Truthy(c.employee_id) THEN c.employee_id
    ELSE IF Truthy(c.extension_EmployeeId) THEN c.extension_EmployeeId
    ELSE NoneVal

\* the directory answered the lookup with a user record
LookupAnswered(g) == g.token = "ok" /\ g.http = "ok"

\* the lookup returns an identifier instead of throwing
LookupSucceeds(g) ==
    /\ LookupAnswered(g)
    /\ (Truthy(g.record.employeeId) \/ Truthy(g.record.userPrincipalName))

LookupRequests(id) ==
    <<Req("resolution", "POST graph token", id),
      Req("resolution", "GET graph user", id)>>

LookedUp(id) == \E i \in 1..Len(log) : log[i].arg = id

\* C8: the result is that of the first strategy that succeeds in the order
\* username lookup, object-id lookup, employee-id claim, username local
\* part, and no later strategy is attempted; an employeeId returned by the
\* directory is the result, never a token claim or the username fallback.
C8_FirstStrategyWins ==
    Returned =>
        LET c == token.claims
            u == UsernameOf(c)
        IN  IF Truthy(u) /\ LookupSucceeds(graph[1])
            THEN /\ error = NoError
                 /\ log = LookupRequests(u)
                 /\ Truthy(graph[1].record.employeeId)
                        => worker_id = graph[1].record.employeeId
            ELSE IF Truthy(c.oid) /\ LookupSucceeds(graph[2])
            THEN /\ error = NoError
                 /\ LookedUp(c.oid)
                 /\ Truthy(graph[2].record.employeeId)
                        => worker_id = graph[2].record.employeeId
            ELSE IF Truthy(EmployeeIdOf(c))
            THEN error = NoError /\ worker_id = EmployeeIdOf(c)
            ELSE Truthy(u) => (error = NoError /\ worker_id = LocalPart(u))

C8_Witness ==
    /\ Returned
    /\ UsernameOf(token.claims) = Alice
    /\ Truthy(token.claims.oid)
    /\ Truthy(EmployeeIdOf(token.claims))
    /\ graph[1] = GraphUser(S("E123"), <<"al", "@", "contoso.com">>)
    /\ worker_id = S("E123")
    /\ Len(log) = 2

\* C9: a directory lookup that throws is treated as no match: the object-id
\* lookup is still made, the employee-id claims are still read, and claims
\* whose only hint is a username resolve to its local part.
C9_LookupFailureTolerated ==
    Returned =>
        LET c == token.claims
            u == UsernameOf(c)
        IN  (Truthy(u) /\ ~LookupSucceeds(graph[1])) =>
              /\ error = NoError
              /\ Truthy(c.oid) => LookedUp(c.oid)
              /\ (~Truthy(c.oid) \/ ~LookupSucceeds(graph[2])) =>
                    worker_id = IF Truthy(EmployeeIdOf(c)) THEN EmployeeIdOf(c)
                                ELSE LocalPart(u)

C9_Witness ==
    /\ Returned
    /\ token.claims.preferred_username = Alice
    /\ ~Truthy(token.claims.oid)
    /\ ~Truthy(EmployeeIdOf(token.claims))
    /\ graph[1] = GraphFail
    /\ error = NoError
    /\ worker_id = <<"alice">>

\* C10 as claimed: a username lookup answered with a record that has no
\* employeeId resolves to the local part of the token's username claim,
\* with no object-id lookup.
C10_TokenUsernameLocalPart ==
    (/\ Returned
     /\ Truthy(UsernameOf(token.claims))
     /\ LookupAnswered(graph[1])
     /\ ~Truthy(graph[1].record.employeeId))
        => /\ error = NoError
           /\ worker_id = LocalPart(UsernameOf(token.claims))
           /\ log = LookupRequests(UsernameOf(token.claims))

\* C10 amended: a username lookup answered with a record that has no
\* employeeId but a non-empty userPrincipalName resolves to the local part
\* of the record's userPrincipalName, with no object-id lookup and without
\* reading the employee-id claims.
C10_RecordUpnLocalPart ==
    (/\ Returned
     /\ Truthy(UsernameOf(token.claims))
     /\ LookupAnswered(graph[1])
     /\ ~Truthy(graph[1].record.employeeId)
     /\ Truthy(graph[1].record.userPrincipalName))
        => /\ error = NoError
           /\ worker_id = LocalPart(graph[1].record.userPrincipalName)
           /\ log = LookupRequests(UsernameOf(token.claims))

C10_Witness ==
    /\ Returned
    /\ UsernameOf(token.claims) = Alice
    /\ Truthy(token.claims.oid)
    /\ Truthy(EmployeeIdOf(token.claims))
    /\ graph[1] = GraphUser(NoneVal, <<"al", "@", "contoso.com">>)
    /\ worker_id = <<"al">>
    /\ Len(log) = 2

\* the claims carry no usable username, object id or employee id
NoHint(c) ==
    /\ \A k \in {"preferred_username", "upn", "unique_name", "oid"} : ~Truthy(c[k])
    /\ \A i \in 1..Len(EmployeeIdKeys) : ~Truthy(c[EmployeeIdKeys[i]])

\* C11: for claims with no username claim, no object-id claim and no
\* employee-id claim variant (absent or empty), the resolution fails with its
\* identity-resolution error (ValueError), sets no worker id and performs no
\* directory lookup.
C11_NoHintFails ==
    (Returned /\ NoHint(token.claims)) =>
        /\ error = [stage |-> "resolution", kind |-> "ValueError"]
        /\ worker_id = NoneVal
        /\ log = <<>>

C11_Witness ==
    /\ Returned
    /\ NoHint(token.claims)
    /\ token.claims.preferred_username = <<>>
    /\ token.claims.oid = <<>>
    /\ token.claims.employeeId = <<>>
    /\ graph[1].token = "ok" /\ graph[1].http = "ok"
    /\ error.kind = "ValueError"

\* C12: every WorkerContext that build_worker_context returns holds a
\* non-empty worker_id and a non-empty Workday access token, whatever the
\* validated claims, the directory's record and the token endpoint's accepted
\* response were.
C12_ContextNeverEmpty ==
    context # NoContext =>
        /\ Truthy(context.worker_id)
        /\ Truthy(context.workday_access_token)

\* positions of the credential's symbols in a header "<scheme> <credential>"
CredentialPositions(h) == {i \in 3..Len(h) : h[i] # " "}

\* the header names the Bearer scheme and carries a credential that is not blank
WellFormedHeader(h) ==
    /\ h \notin {NoCtx, NoneVal}
    /\ Len(h) >= 2
    /\ h[1] \in {"Bearer", "bearer", "BEARER"}
    /\ h[2] = " "
    /\ CredentialPositions(h) # {}

\* the credential of a well-formed header, surrounding blanks removed
CredentialOf(h) ==
    LET P == CredentialPositions(h)
        first == CHOOSE i \in P : \A j \in P : i <= j
        last == CHOOSE i \in P : \A j \in P : j <= i
    IN  SubSeq(h, first, last)

C14_ContextBeforeBusiness ==
    (RequestsOf("business") # {} \/ error.stage \in {"entry", "business"})
        => context # NoContext

\* a logged request as it goes over the wire
Wire(r) == IF r.req = "POST graph token" THEN [r EXCEPT !.arg = NoneVal] ELSE r

\* how many times the request logged at position i has been issued
TimesIssued(i) == Cardinality({j \in 1..Len(log) : Wire(log[j]) = Wire(log[i])})

Mutations == {i \in 1..Len(log) : log[i].req = MutationQuery(tool)}

\* C15: within one tool call only the credential-exchange POST is issued
\* more than once; key discovery, the directory token request and lookup,
\* the worker search, the Workday reads and the mutation POSTs are each
\* issued at most once.
C15_OnlyExchangeReissued ==
    \A i \in 1..Len(log) : log[i].stage # "credential" => TimesIssued(i) = 1

\* directory lookups the call has started: one per identifier it tried
LookupsStarted ==
    Cardinality({id \in {UsernameOf(payload), payload.oid} :
                    Truthy(id) /\ \E i \in 1..Len(log) :
                        log[i] = Req("resolution", "POST graph token", id)})

\* C15 (amended): the directory token request is issued once per directory
\* lookup the resolution starts (at most two: username, object id); every
\* other request outside the credential exchange is issued at most once, and
\* a mutation POST, once sent, is the last request of the call whatever its
\* answer (success, error response or timeout).
C15_OneTokenPerLookup ==
    /\ \A i \in 1..Len(log) :
         CASE log[i].stage = "credential" -> TRUE
           [] log[i].req = "POST graph token" ->
                TimesIssued(i) = LookupsStarted /\ TimesIssued(i) <= 2
           [] OTHER -> TimesIssued(i) = 1
    /\ tool \in MutationTools =>
         /\ Cardinality(Mutations) <= 1
         /\ Mutations \subseteq {Len(log)}

C15_Witness ==
    /\ tool = "book_leave"
    /\ pc = "failed"
    /\ error = [stage |-> "business", kind |-> "TimeoutException"]
    /\ Cardinality(Mutations) = 1
    /\ Cardinality({i \in 1..Len(log) : log[i].req = "POST graph token"}) = 2
    /\ Len(exchange) = 2

\* the mutation POST of the call got no answer in time
MutationTimedOut ==
    /\ tool \in MutationTools
    /\ Mutations # {}
    /\ error.kind = "TimeoutException"

\* C16: when the mutation POST of book_leave or change_business_title times
\* out, the call ends with a result that reports the outcome as unknown,
\* which is neither a success nor a rejection by Workday.
C16_TimeoutReportedUnknown ==
    MutationTimedOut =>
        /\ pc = "done"
        /\ result # NoResult
        /\ ~result.success
        /\ "outcome" \in DOMAIN result /\ result.outcome = "unknown"

\* C17: every error a stage raises ends the call as that stage's failure; the
\* only errors caught and dropped inside a call are those of the directory
\* lookups of the resolution stage, so a call that completed has had no
\* failed Workday request.
C17_OnlyLookupsSwallowed ==
    \A e \in swallowed : e.stage = "resolution"

\* C18: a TokenValidationError does not tell which gate failed: any two
\* tokens the validator rejects, whatever gates they fail (signature,
\* audience, issuer, tenant, scope), are rejected with the same message.
C18_GenericMessage ==
    (error.kind = "TokenValidationError" /\ other.kind = "TokenValidationError")
        => message = other.message

\* C19: when the worker search answers with a non-empty data array the
\* worker record of the context is the first element of that array; when the
\* answer has no data key or an empty array the search fails with the
\* worker-not-found error (LookupError) and no WorkerContext is built.
C19_FirstRecordOrNotFound ==
    (searched # NotSearched /\ searched.status = "ok") =>
        IF searched.hasData /\ Len(searched.data) > 0
        THEN /\ context # NoContext
             /\ context.worker_data = searched.data[1]
        ELSE /\ pc = "failed"
             /\ error = [stage |-> "worker_search", kind |-> "LookupError"]
             /\ context = NoContext

C19_Witness ==
    /\ searched.status = "ok"
    /\ Len(searched.data) = 2
    /\ searched.data[1] # searched.data[2]
    /\ context # NoContext
    /\ context.worker_data = searched.data[1]

\* the result tool_get_leave_balances owes its caller: every field holds
\* the response of its own query
LeaveBalancesResult ==
    Success({<<"leaveBalances", DataOf("balances")>>,
             <<"eligibleAbsenceTypes", DataOf("eligibleAbsenceTypes")>>,
             <<"leavesOfAbsence", DataOf("leavesOfAbsence")>>,
             <<"bookedTimeOff", DataOf("timeOffDetails")>>})

LeaveQueries == {"balances", "eligibleAbsenceTypes", "leavesOfAbsence", "timeOffDetails"}

\* C20: tool_get_leave_balances issues its four Workday queries only once
\* the WorkerContext exists, all four are in flight before the first
\* response is taken, and the result it returns is the same for every order
\* in which the four responses complete, each field holding the response of
\* its own query.
C20_GatherOrderIndependent ==
    tool = "get_leave_balances" =>
        /\ RequestsOf("business") # {} =>
              /\ context # NoContext
              /\ {log[i].req : i \in RequestsOf("business")} = LeaveQueries
              /\ Cardinality(RequestsOf("business")) = 4
        /\ (pc = "gather" /\ arrived = <<>>) => inflight = LeaveQueries
        /\ Elems(arrived) \cup inflight \in {{}, LeaveQueries}
        /\ pc = "done" => result = LeaveBalancesResult

C20_Witness ==
    /\ tool = "get_leave_balances"
    /\ pc = "done"
    /\ arrived = <<"timeOffDetails", "leavesOfAbsence", "eligibleAbsenceTypes",
                   "balances">>
    /\ result = LeaveBalancesResult

----------------------------------------------------------------------------
(* Properties of _create_days_array (SpecDays) *)

\* the calendar day an ISO string names, as a position in Calendar
DayOf(s) == CHOOSE d \in 1..Len(Calendar) : Calendar[d] = s[1]

\* calendar days from the start day to the end day, both included
DaysSpanned == IF DayOf(args.endDate) < DayOf(args.startDate) THEN 0
               ELSE DayOf(args.endDate) - DayOf(args.startDate) + 1

DailyQuantity == IF args.unit \in {S("Days"), S("days")} THEN S("8") ELSE args.quantity

\* C21: _create_days_array produces exactly one entry per calendar day from
\* startDate to endDate inclusive, in ascending date order; each entry's
\* dailyQuantity is "8" when the unit is Days and the requested quantity
\* unchanged for any other unit.
C21_OneEntryPerDay ==
    Returned =>
        /\ Len(result.data) = DaysSpanned
        /\ \A i \in 1..Len(result.data) :
             /\ result.data[i].date[1] = Calendar[DayOf(args.startDate) + i - 1]
             /\ result.data[i].dailyQuantity = DailyQuantity

----------------------------------------------------------------------------
(* Properties of the leave-booking error handling (SpecBookError) *)

\* the status and body of the error response received
Response == CHOOSE r \in fetched : TRUE

\* errors[0].error of a body, NoneVal when the body has no such member
FirstErrorOf(body) ==
    IF body.isDict /\ body.errors.kind = "list" /\ Len(body.errors.val) > 0
       /\ body.errors.val[1].kind = "dict"
    THEN body.errors.val[1].error
    ELSE NoneVal

\* first non-empty value among errors[0].error, error and message, the
\* status-code message when there is none
ReasonOf(status, body) ==
    IF Truthy(FirstErrorOf(body)) THEN FirstErrorOf(body)
    ELSE IF body.isDict /\ Truthy(body.error) THEN body.error
    ELSE IF body.isDict /\ Truthy(body.message) THEN body.message
    ELSE StatusMessage(status)

\* C22: for every error response to the leave-booking POST, whatever the
\* shape of its body (an empty errors list included), book_leave fails with
\* its downstream error (ValueError) whose message is the first non-empty
\* value among errors[0].error, error and message of the body, and the
\* status-code message when none is present.
C22_ErrorReason ==
    Returned =>
        /\ error = [stage |-> "business", kind |-> "ValueError"]
        /\ message = ReasonOf(Response[1], Response[2])

----------------------------------------------------------------------------
(* Properties of the tool registry (SpecServer) *)

OperationNames ==
    {"get_worker", "get_leave_balances", "get_direct_reports", "get_inbox_tasks",
     "get_learning_assignments", "get_pay_slips", "get_time_off_entries",
     "prepare_request_leave", "book_leave", "change_business_title",
     "search_learning_content"}

RegistryEntries == {WORKDAY_TOOL_SPECS[i] : i \in 1..Len(WORKDAY_TOOL_SPECS)}

\* C23: WORKDAY_TOOL_SPECS contains every one of the eleven operation names,
\* each bound to exactly one handler, and the server that
\* build_workday_server returns has exactly the registry's tools: a call by
\* name runs the registry's handler of that name, any other name runs none.
C23_Registry ==
    /\ OperationNames \subseteq {e.name : e \in RegistryEntries}
    /\ \A n \in OperationNames : Cardinality({e \in RegistryEntries : e.name = n}) = 1
    /\ pc = "serving" =>
         /\ ToolTable(server.registered) = RegistryEntries
         /\ \A i \in 1..Len(server.served) :
              LET c == server.served[i] IN
              IF c.name \in OperationNames
              THEN [name |-> c.name, func |-> c.func] \in RegistryEntries
              ELSE c.func = S("Unknown tool")

C23_Witness ==
    /\ pc = "serving"
    /\ Len(server.registered) = 11
    /\ Len(server.served) = 2
    /\ server.served[1] = [name |-> "search_learning_content",
                           func |-> <<"tool_", "search_learning_content">>]
    /\ server.served[2].func = S("Unknown tool")

----------------------------------------------------------------------------
(* Properties of two concurrent calls (SpecCalls) *)

\* the worker the bearer token of a call stands for
WorkerOfToken(tok) ==
    IF Truthy(tok.claims.preferred_username)
    THEN <<"emp-", tok.claims.preferred_username[1]>>
    ELSE tok.claims.employee_id

CredentialPosts(c) == {k \in 1..Len(c.requests) : c.requests[k].stage = "credential"}

\* C24: in every interleaving of two calls with different bearer tokens,
\* each call's claims, worker id and WorkerContext come from its own token,
\* its Workday token from its own credential exchange and from no other
\* call, and every downstream request it issues carries that worker id and
\* that token.
C24_CallsIsolated ==
    \A i \in DOMAIN calls :
        LET me == calls[i] IN
        /\ me.payload \in {NoPayload, me.token.claims}
        /\ me.worker_id \in {NoneVal, WorkerOfToken(me.token)}
        /\ me.pc \in {"search", "business", "done"} =>
             /\ CredentialPosts(me) # {}
             /\ me.access_token # NoneVal
             /\ \A j \in DOMAIN calls \ {i} : calls[j].access_token # me.access_token
        /\ me.context # NoContext =>
             /\ me.context.payload = me.token.claims
             /\ me.context.worker_id = WorkerOfToken(me.token)
             /\ me.context.workday_access_token = me.access_token
        /\ \A k \in 1..Len(me.requests) :
             LET r == me.requests[k] IN
             /\ r.stage = "worker_search" =>
                  r.arg = WorkerOfToken(me.token) /\ r.token = me.access_token
             /\ r.stage = "business" =>
                  /\ r.arg = <<"WID-">> \o WorkerOfToken(me.token)
                  /\ r.token = me.access_token

C24_Witness ==
    /\ Len(calls) = 2
    /\ calls[1].pc = "done" /\ calls[2].pc = "done"
    /\ calls[1].token.claims.preferred_username = Alice
    /\ calls[2].token.claims.preferred_username = Bob
    /\ calls[1].access_token = TokenOf(2)
    /\ calls[2].access_token = TokenOf(1)
    /\ calls[2].attempts = 2

----------------------------------------------------------------------------
(* Properties of the retry waits (Spec) *)

\* C25: the waits between the attempts of get_access_token follow
\* exponential backoff: the wait before the second attempt is 1 time unit,
\* each later wait is double the one before it, and no wait is below 1 or
\* above 8 time units; there is one wait per retry.
C25_ExponentialBackoff ==
    /\ Len(waits) = IF pc = "credential" THEN Len(exchange)
                    ELSE IF exchange = <<>> THEN 0 ELSE Len(exchange) - 1
    /\ Len(waits) >= 1 => waits[1] = 1
    /\ \A i \in 2..Len(waits) : waits[i] = 2 * waits[i - 1]
    /\ \A i \in 1..Len(waits) : 1 <= waits[i] /\ waits[i] <= 8

C25_Witness ==
    /\ waits = <<1, 2>>
    /\ exchange = <<"timeout", "503", "200">>
    /\ access_token = TokenOf(3)

----------------------------------------------------------------------------
(* Properties of the settings cache (SpecSettings) *)

\* C26: between two resets each configuration kind is read from the
\* environment at most once and all its loads return the same value.
C26_LoadedOnce ==
    settings # NoSettings =>
        \A k \in SettingKinds :
            /\ settings.reads[k] <= 1
            /\ Cardinality(settings.returned[k]) <= 1

\* C26 (amended): between two resets each configuration kind is read from
\* the environment successfully at most once: from the first load that
\* succeeds on, every load returns that same configuration without reading
\* the environment, whatever the environment has become; a load that fails
\* on a missing variable caches nothing and the next load reads the
\* environment again; after a reset every cache is empty, so the next load
\* reads the environment.
C26_LoadedOnceWhenValid ==
    settings # NoSettings =>
        \A k \in SettingKinds :
            /\ Cardinality(settings.returned[k] \ {S("ValidationError")}) <= 1
            /\ settings.cache[k] # NoneVal =>
                 /\ settings.cache[k] \in settings.returned[k]
                 /\ settings.cache[k] # S("missing")
            /\ settings.cache[k] = NoneVal =>
                 settings.returned[k] \subseteq {S("ValidationError")}
            /\ S("ValidationError") \notin settings.returned[k] =>
                 settings.reads[k] <= 1
            /\ settings.last.op = "reset" =>
                 settings.cache[k] = NoneVal /\ settings.reads[k] = 0
            /\ (settings.last.op = "load" /\ settings.last.kind = k
                /\ settings.last.hit) => settings.cache[k] # NoneVal

C26_Witness ==
    /\ settings # NoSettings
    /\ settings.steps = 4
    /\ settings.last = [op |-> "load", kind |-> "graph", hit |-> TRUE]
    /\ settings.cache["graph"] = S("config-A")
    /\ settings.env["graph"] = S("config-B")
    /\ settings.reads["graph"] = 1
    /\ settings.returned["graph"] = {S("config-A")}

----------------------------------------------------------------------------
(* Properties of one validator instance (SpecValidator) *)

Discoveries ==
    SelectSeq(log, LAMBDA r : r.req = "GET openid-configuration")

Discovered(n) == \E j \in 1..n : calls[j].discovery = "ok"

\* C27: on one validator instance the metadata discovery is requested by
\* every validate until one discovery succeeds and by none after it: the
\* client created then is kept and reused; a discovery that fails or lacks
\* jwks_uri keeps nothing and fails its validation with
\* TokenValidationError.
C27_DiscoveryOncePerInstance ==
    tool = "validate" =>
        /\ \A i \in 1..Len(calls) :
             /\ calls[i].discovery = "reused" <=> Discovered(i - 1)
             /\ calls[i].discovery \in {"discovery_failed", "no_jwks_uri"} =>
                  calls[i].kind = "TokenValidationError"
        /\ validator.jwks_client # NoneVal <=> Discovered(Len(calls))
        /\ Len(Discoveries) =
             Cardinality({i \in 1..Len(calls) : calls[i].discovery # "reused"})
        /\ Cardinality({i \in 1..Len(calls) : calls[i].discovery = "ok"}) <= 1

C27_Witness ==
    /\ tool = "validate"
    /\ Len(calls) = 3
    /\ calls[1].discovery = "no_jwks_uri"
    /\ calls[2].discovery = "ok"
    /\ calls[3].discovery = "reused"
    /\ calls[3].kind = "ok"
    /\ Len(Discoveries) = 2

----------------------------------------------------------------------------
(* Properties of the gathered queries (Spec) *)

\* the queries whose response was an error
FailedQueries ==
    {q \in Elems(arrived) : <<q, DataOf(q)>> \notin fetched}

\* the result of a gather tool that holds the data of every query
CompleteResult(t) ==
    GatherResult(t, [i \in 1..Len(GatherQueries(t)) |-> DataOf(GatherQueries(t)[i])])

\* C28: in tool_get_leave_balances and tool_prepare_request_leave a failed
\* query fails the tool call in every order of completion: a result with
\* success true is returned only when every query succeeded and it then
\* holds the data of every query.
C28_GatherAllOrNothing ==
    tool \in GatherTools =>
        /\ FailedQueries # {} =>
              /\ pc = "failed"
              /\ error = [stage |-> "business", kind |-> "HTTPStatusError"]
              /\ ~result.success
        /\ result.success =>
              /\ pc = "done"
              /\ error = NoError
              /\ Elems(arrived) = Elems(GatherQueries(tool))
              /\ result = CompleteResult(tool)

C28_Witness ==
    /\ tool = "prepare_request_leave"
    /\ pc = "failed"
    /\ Len(arrived) = 3
    /\ arrived[1] = GatherQueries(tool)[3]
    /\ FailedQueries = {GatherQueries(tool)[1]}
    /\ ~result.success

----------------------------------------------------------------------------
(* Properties of the mutation tools' arguments (Spec) *)

MissingArgument ==
    \/ /\ tool = "book_leave"
       /\ ~Truthy(args.startDate) \/ ~Truthy(args.endDate) \/ ~Truthy(args.timeOffTypeId)
    \/ /\ tool = "change_business_title"
       /\ ~Truthy(args.proposedBusinessTitle)

MutationPosts == {i \in 1..Len(log) : log[i].req = MutationQuery(tool)}

\* the stage at which the tool checks its required arguments
ArgumentStage == IF tool = "book_leave" THEN "business" ELSE "entry"

ArgumentError == [stage |-> ArgumentStage, kind |-> "ValueError"]

\* C29: a mutation tool called with a missing required argument fails with
\* an argument error and never issues its mutation POST.
C29_ArgumentError ==
    MissingArgument =>
        /\ MutationPosts = {}
        /\ pc # "done"
        /\ pc = "failed" => error = ArgumentError

\* C29 (amended): a mutation tool called with a missing required argument
\* never issues its mutation POST and never succeeds.  It fails with the
\* argument error when the call reaches the argument check, which
\* change_business_title makes right after the bearer token is extracted,
\* before any outbound request, and book_leave makes only after the
\* WorkerContext is built; a call that fails earlier (no bearer token, or
\* for book_leave a failed validation, resolution, credential exchange or
\* worker search) fails with that earlier error instead.
C29_NoPostWithoutArguments ==
    MissingArgument =>
        /\ MutationPosts = {}
        /\ pc # "done"
        /\ ~result.success
        /\ pc = "failed" =>
             /\ Rank(error.stage) <= Rank(ArgumentStage)
             /\ error.stage = ArgumentStage => error = ArgumentError
             /\ (tool = "change_business_title" /\ Truthy(bearer)) =>
                  error = ArgumentError /\ log = <<>>
             /\ (tool = "book_leave" /\ context # NoContext) =>
                  error = ArgumentError
             /\ (tool = "book_leave" /\ context = NoContext) =>
                  Rank(error.stage) < Rank(ArgumentStage)

C29_Witness ==
    /\ tool = "book_leave"
    /\ args.endDate = NoneVal
    /\ pc = "failed"
    /\ error = ArgumentError
    /\ context # NoContext
    /\ Len(log) >= 4
    /\ MutationPosts = {}

----------------------------------------------------------------------------
(* Properties of the error type of validate (SpecValidate) *)

\* C30: every failure of EntraTokenValidator.validate, the validation with
\* the options built from the settings, is a TokenValidationError, whatever
\* fails and whatever the shape of the scope claim.
C30_OnlyTokenValidationError ==
    (Returned /\ options = validate_options /\ error # NoError)
        => error = [stage |-> "validation", kind |-> "TokenValidationError"]

====
